---- MODULE Spec2Model ----
(***************************************************************************)
(* Decision fusion and batch calibration of the fraud-scoring backend      *)
(* (backend/src/api/main.py and backend/src/api/routers/simulation.py).    *)
(*                                                                         *)
(* Conventions of the model                                                *)
(*   - a Python str is a sequence of one-character strings, so that        *)
(*     strip() and lower() are computed, not assumed;                      *)
(*   - a probability is an integer number of hundredths (0 .. 100), so     *)
(*     0.7 is 70, 0.97 is 97 and "+ 0.2" is "+ 20";                        *)
(*   - an amount is a whole number of currency units;                      *)
(*   - a Python dict is a record, a list is a sequence.                    *)
(***************************************************************************)
EXTENDS Integers, Sequences, FiniteSets, TLC

VARIABLES
    fb,       \* last call of the Feature Builder: arguments and vector
    rl,       \* last call of the two risk labelers
    enh,      \* last request served by predict_fraud_enhanced
    model,    \* the classifier loaded at start-up, on the batch transactions
    hasBoost, \* whether api.main exports _apply_demo_boost
    sims,     \* the run_batch_simulation invocations, one per handler slot
    SIMULATION_BUFFER, \* the process-wide overlay deque
    inserted, \* history: the entry lists appended to the deque, in order
    ov,       \* last response of get_simulation_overlay
    csv,      \* last request served by predict_fraud_batch
    mem,      \* the objects of one batch run by address: the result dicts
              \* handed to the caller and the dicts held by the deque
    leg       \* last request served by the legacy predict_fraud

vars == <<fb, rl, enh, model, hasBoost, sims, SIMULATION_BUFFER, inserted, ov, csv, mem, leg>>

\* the handler slots: requests to /api/simulation/batch served at a time
Slots == {1, 2}

\* the invocation in the first slot
sim == sims[1]

----------------------------------------------------------------------------
(* Bounds of the model *)

\* largest number of blanks put on either side of a word
MaxPad == 1

\* longest pattern of transaction kinds a batch is built from
MaxPattern == 2

\* most rows of an uploaded CSV file
MaxRows == 3

\* most overlay entries a sequence of batch runs may insert in all
MaxInserted == 501

----------------------------------------------------------------------------
(* Python strings *)

UpperLetters ==
    <<"A","B","C","D","E","F","G","H","I","J","K","L","M",
      "N","O","P","Q","R","S","T","U","V","W","X","Y","Z">>

LowerLetters ==
    <<"a","b","c","d","e","f","g","h","i","j","k","l","m",
      "n","o","p","q","r","s","t","u","v","w","x","y","z">>

Whitespace == {" ", "\t", "\n"}

\* str.lower() on one character
LowerChar(c) ==
    IF \E i \in 1..26 : UpperLetters[i] = c
    THEN LowerLetters[CHOOSE i \in 1..26 : UpperLetters[i] = c]
    ELSE c

\* str.lower()
Lower(s) == [i \in 1..Len(s) |-> LowerChar(s[i])]

\* str.strip(): drop the leading and the trailing whitespace
Strip(s) ==
    LET keep == {i \in 1..Len(s) : s[i] \notin Whitespace}
    IN IF keep = {} THEN <<>>
       ELSE LET lo == CHOOSE i \in keep : \A j \in keep : i <= j
                hi == CHOOSE i \in keep : \A j \in keep : j <= i
            IN SubSeq(s, lo, hi)

\* Python's "x or default" on a str: the empty string is falsy
OrDefault(s, default) == IF s = <<>> THEN default ELSE s

\* n blanks
Blanks(n) == [i \in 1..n |-> " "]

\* a word with up to MaxPad blanks on each side
Padded(words) ==
    {Blanks(l) \o w \o Blanks(r) : w \in words, l \in 0..MaxPad, r \in 0..MaxPad}

----------------------------------------------------------------------------
(* Inputs *)

ChannelWords ==
    { <<"A","T","M">>, <<"a","t","m">>, <<"A","t","m">>,
      <<"P","O","S">>, <<"p","o","s">>,
      <<"M","o","b","i","l","e">>, <<"M","O","B","I","L","E">>,
      <<"W","e","b">>, <<"w","e","b">>,
      <<"U","P","I">>, <<"a"," ","t","m">>, <<>> }

KycWords ==
    { <<"Y","e","s">>, <<"y","e","s">>, <<"Y","E","S">>,
      <<"N","o">>, <<"n","o">>, <<"N","O">>,
      <<"m","a","y","b","e">>, <<"n","o","n","e">>, <<"y">>, <<>> }

ChannelInputs == Padded(ChannelWords)
KycInputs == Padded(KycWords)

\* datetime.utcnow() at the time of the call: (weekday, month)
Clock == {[weekday |-> 0, month |-> 1], [weekday |-> 6, month |-> 12]}

----------------------------------------------------------------------------
(* Feature Builder: main.py *)

S_atm == <<"a","t","m">>
S_mobile == <<"m","o","b","i","l","e">>
S_pos == <<"p","o","s">>
S_web == <<"w","e","b">>
S_yes == <<"y","e","s">>
S_no == <<"n","o">>
S_No == <<"N","o">>

\* _channel_feature_flags with the normalisation reduced to lower()
ChannelFlagsNoStrip(channel) ==
    LET normalized == Lower(OrDefault(channel, <<>>))
        key == IF normalized \in {S_atm, S_mobile, S_pos, S_web}
               THEN normalized ELSE S_web
    IN [channel_Atm    |-> IF key = S_atm THEN 1 ELSE 0,
        channel_Mobile |-> IF key = S_mobile THEN 1 ELSE 0,
        channel_Pos    |-> IF key = S_pos THEN 1 ELSE 0,
        channel_Web    |-> IF key = S_web THEN 1 ELSE 0]

\* _channel_feature_flags: normalise, look the channel up, default to web,
\* then rename the four keys
_channel_feature_flags(channel) ==
    LET normalized == Lower(Strip(OrDefault(channel, <<>>)))
        mapped == normalized \in {S_atm, S_mobile, S_pos, S_web}
        flags == [channel_atm    |-> IF mapped /\ normalized = S_atm THEN 1 ELSE 0,
                  channel_mobile |-> IF mapped /\ normalized = S_mobile THEN 1 ELSE 0,
                  channel_pos    |-> IF mapped /\ normalized = S_pos THEN 1 ELSE 0,
                  channel_web    |-> IF (mapped /\ normalized = S_web) \/ ~mapped
                                     THEN 1 ELSE 0]
    IN [channel_Atm    |-> flags.channel_atm,
        channel_Mobile |-> flags.channel_mobile,
        channel_Pos    |-> flags.channel_pos,
        channel_Web    |-> flags.channel_web]

\* _kyc_flags: each flag is set by its own comparison with the normalised text
_kyc_flags(kyc_status) ==
    LET normalized == Lower(Strip(OrDefault(kyc_status, S_No)))
    IN [kyc_verified_No  |-> IF normalized = S_no THEN 1 ELSE 0,
        kyc_verified_Yes |-> IF normalized = S_yes THEN 1 ELSE 0]

\* numpy.log1p is kept symbolic
Log1p(x) == <<"log1p", x>>

\* _build_engineered_features_basic
_build_engineered_features_basic(transaction_amount, account_age_days, hour, channel, kyc_verified, now) ==
    LET channel_flags == _channel_feature_flags(channel)
        kyc_flags == _kyc_flags(kyc_verified)
        engineered ==
            [account_age_days |-> account_age_days,
             transaction_amount |-> transaction_amount,
             hour |-> hour,
             weekday |-> now.weekday,
             month |-> now.month,
             is_high_value |-> IF transaction_amount > 5000 THEN 1 ELSE 0,
             transaction_amount_log |->
                 IF transaction_amount <= 0 THEN 0 ELSE Log1p(transaction_amount)]
    IN kyc_flags @@ channel_flags @@ engineered

\* the amounts the Feature Builder is exercised on
BuilderAmounts == {0, 5000, 5001}

FbIdle == [pc |-> "idle"]

\* one call of the Feature Builder
BuildFeatures(amount, age, hour, channel, kyc, now) ==
    /\ fb.pc = "idle"
    /\ fb' = [pc |-> "done", channel |-> channel, kyc |-> kyc,
              vector |-> _build_engineered_features_basic(
                             amount, age, hour, channel, kyc, now)]
    /\ UNCHANGED <<rl, enh, model, hasBoost, sims, SIMULATION_BUFFER, inserted, ov, csv, mem, leg>>


----------------------------------------------------------------------------
(* Risk Labeler: main.py and routers/simulation.py *)

\* probabilities in hundredths
Probabilities == 0..100

\* _determine_risk_level with an inclusive upper threshold
DetermineRiskLevelInclusive(probability) ==
    IF probability >= 70 THEN "High"
    ELSE IF probability > 40 THEN "Medium"
    ELSE "Low"

\* _determine_risk_level (main.py)
_determine_risk_level(probability) ==
    IF probability > 70 THEN "High"
    ELSE IF probability > 40 THEN "Medium"
    ELSE "Low"

\* _label_from_probability (routers/simulation.py)
_label_from_probability(probability) ==
    IF probability > 70 THEN "High"
    ELSE IF probability > 40 THEN "Medium"
    ELSE "Low"

RlIdle == [pc |-> "idle"]

\* one probability labelled by both implementations
LabelRisk(probability) ==
    /\ rl.pc = "idle"
    /\ rl' = [pc |-> "done", probability |-> probability,
              single |-> _determine_risk_level(probability),
              batch |-> _label_from_probability(probability)]
    /\ UNCHANGED <<fb, enh, model, hasBoost, sims, SIMULATION_BUFFER, inserted, ov, csv, mem, leg>>

----------------------------------------------------------------------------
(* Rule Engine, risk factors and Decision Fusion: main.py *)

\* _derive_risk_factors
_derive_risk_factors(transaction_amount, account_age_days, hour, kyc_verified, channel) ==
    LET f0 == <<>>
        f1 == IF transaction_amount > 10000
              THEN Append(f0, "High transaction amount") ELSE f0
        f2 == IF account_age_days < 30
              THEN Append(f1, "New account (< 30 days)") ELSE f1
        f3 == IF hour < 6 \/ hour > 22
              THEN Append(f2, "Unusual transaction time") ELSE f2
        f4 == IF Lower(Strip(kyc_verified)) = S_no
              THEN Append(f3, "KYC not verified") ELSE f3
        f5 == IF Lower(channel) \in {S_atm, S_pos} /\ transaction_amount > 20000
              THEN Append(f4, "High-value ATM transaction") ELSE f4
    IN f5

\* a reason chosen by the risk factors first, for every verdict
GenerateReasonFactorsFirst(prediction, risk_factors, fraud_probability, transaction_amount) ==
    IF Len(risk_factors) >= 2
    THEN <<"Multiple risk indicators detected", risk_factors>>
    ELSE IF Len(risk_factors) = 1
    THEN <<"Risk factor identified", risk_factors[1]>>
    ELSE IF prediction = 1 /\ fraud_probability >= 70
    THEN <<"High ML fraud risk score", fraud_probability>>
    ELSE IF prediction = 1
    THEN <<"Moderate fraud risk detected", fraud_probability>>
    ELSE <<"Low fraud risk", transaction_amount>>

\* _generate_fraud_reason: the text is kept as its template and arguments
_generate_fraud_reason(prediction, risk_factors, fraud_probability, transaction_amount) ==
    IF prediction = 1
    THEN IF Len(risk_factors) >= 2
         THEN <<"Multiple risk indicators detected", risk_factors>>
         ELSE IF Len(risk_factors) = 1
         THEN <<"Risk factor identified", risk_factors[1]>>
         ELSE IF fraud_probability >= 70
         THEN <<"High ML fraud risk score", fraud_probability>>
         ELSE <<"Moderate fraud risk detected", fraud_probability>>
    ELSE <<"Low fraud risk", transaction_amount>>

\* the rules chained with elif after the KYC rule, so that a later rule is
\* only looked at when the KYC rule did not fire
RuleFlagsShortCircuit(transaction_amount, account_age_days, hour, kyc_verified, channel) ==
    LET r0 == <<>>
        r1 == IF transaction_amount > 10000 /\ account_age_days < 30
              THEN Append(r0, "HIGH_VALUE_NEW_ACCOUNT") ELSE r0
        kyc == Lower(Strip(kyc_verified)) = S_no /\ transaction_amount > 5000
        r2 == IF kyc THEN Append(r1, "UNVERIFIED_KYC_HIGH_AMOUNT") ELSE r1
        r3 == IF ~kyc /\ hour >= 2 /\ hour <= 5 /\ transaction_amount > 3000
              THEN Append(r2, "UNUSUAL_HOUR") ELSE r2
        r4 == IF transaction_amount > 50000
              THEN Append(r3, "VERY_HIGH_AMOUNT") ELSE r3
        r5 == IF account_age_days < 7 /\ Lower(Strip(kyc_verified)) = S_no
              THEN Append(r4, "NEW_ACCOUNT_UNVERIFIED") ELSE r4
        r6 == IF Lower(channel) \in {S_atm, S_pos} /\ transaction_amount > 20000
              THEN Append(r5, "HIGH_ATM_WITHDRAWAL") ELSE r5
    IN r6

\* the rules with rule 5 using the 30-day age threshold of rule 1
RuleFlagsAge30(transaction_amount, account_age_days, hour, kyc_verified, channel) ==
    LET r0 == <<>>
        r1 == IF transaction_amount > 10000 /\ account_age_days < 30
              THEN Append(r0, "HIGH_VALUE_NEW_ACCOUNT") ELSE r0
        r2 == IF Lower(Strip(kyc_verified)) = S_no /\ transaction_amount > 5000
              THEN Append(r1, "UNVERIFIED_KYC_HIGH_AMOUNT") ELSE r1
        r3 == IF hour >= 2 /\ hour <= 5 /\ transaction_amount > 3000
              THEN Append(r2, "UNUSUAL_HOUR") ELSE r2
        r4 == IF transaction_amount > 50000
              THEN Append(r3, "VERY_HIGH_AMOUNT") ELSE r3
        r5 == IF account_age_days < 30 /\ Lower(Strip(kyc_verified)) = S_no
              THEN Append(r4, "NEW_ACCOUNT_UNVERIFIED") ELSE r4
        r6 == IF Lower(channel) \in {S_atm, S_pos} /\ transaction_amount > 20000
              THEN Append(r5, "HIGH_ATM_WITHDRAWAL") ELSE r5
    IN r6

\* the six rules of _apply_rule_based_detection, in the order of the code
RuleFlags(transaction_amount, account_age_days, hour, kyc_verified, channel) ==
    LET r0 == <<>>
        r1 == IF transaction_amount > 10000 /\ account_age_days < 30
              THEN Append(r0, "HIGH_VALUE_NEW_ACCOUNT") ELSE r0
        r2 == IF Lower(Strip(kyc_verified)) = S_no /\ transaction_amount > 5000
              THEN Append(r1, "UNVERIFIED_KYC_HIGH_AMOUNT") ELSE r1
        r3 == IF hour >= 2 /\ hour <= 5 /\ transaction_amount > 3000
              THEN Append(r2, "UNUSUAL_HOUR") ELSE r2
        r4 == IF transaction_amount > 50000
              THEN Append(r3, "VERY_HIGH_AMOUNT") ELSE r3
        r5 == IF account_age_days < 7 /\ Lower(Strip(kyc_verified)) = S_no
              THEN Append(r4, "NEW_ACCOUNT_UNVERIFIED") ELSE r4
        r6 == IF Lower(channel) \in {S_atm, S_pos} /\ transaction_amount > 20000
              THEN Append(r5, "HIGH_ATM_WITHDRAWAL") ELSE r5
    IN r6

\* a fusion policy in which fired rules with a probability of at most 0.2
\* overrule the classifier
FusionRulesVeto(rule_flags, ml_prediction, ml_probability) ==
    LET rule_triggered == Len(rule_flags) > 0
    IN IF rule_triggered /\ ml_probability > 30 THEN 1
       ELSE IF ml_probability >= 70 THEN 1
       ELSE IF rule_triggered /\ ml_probability > 20 THEN 1
       ELSE IF rule_triggered THEN 0
       ELSE ml_prediction

\* the fusion policy with the third branch (rules and probability > 0.2) lost
FusionNoLowBranch(rule_flags, ml_prediction, ml_probability) ==
    LET rule_triggered == Len(rule_flags) > 0
    IN IF rule_triggered /\ ml_probability > 30 THEN 1
       ELSE IF ml_probability >= 70 THEN 1
       ELSE ml_prediction

\* the fusion policy of _apply_rule_based_detection
Fusion(rule_flags, ml_prediction, ml_probability) ==
    LET rule_triggered == Len(rule_flags) > 0
    IN IF rule_triggered /\ ml_probability > 30 THEN 1
       ELSE IF ml_probability >= 70 THEN 1
       ELSE IF rule_triggered /\ ml_probability > 20 THEN 1
       ELSE ml_prediction

\* _apply_rule_based_detection: (final_prediction, rule_flags, reason)
_apply_rule_based_detection(transaction_amount, account_age_days, hour, kyc_verified, channel, ml_prediction, ml_probability) ==
    LET rule_flags == RuleFlags(transaction_amount, account_age_days, hour,
                                kyc_verified, channel)
        final_prediction == Fusion(rule_flags, ml_prediction, ml_probability)
        risk_factors == _derive_risk_factors(transaction_amount,
                            account_age_days, hour, kyc_verified, channel)
        reason == _generate_fraud_reason(final_prediction, risk_factors,
                                         ml_probability, transaction_amount)
    IN [final_prediction |-> final_prediction,
        rule_flags |-> rule_flags,
        reason |-> reason]


----------------------------------------------------------------------------
(* Single scoring: predict_fraud_enhanced, main.py *)

\* what the classifier returns for one vector: a label and a probability,
\* or an exception
MlProbabilities == {20, 21, 30, 31, 35, 69, 70, 71}
Verdicts ==
    [ok : {TRUE}, prediction : {0, 1}, fraud_probability : MlProbabilities]
    \cup {[ok |-> FALSE]}

\* how db_ops.create_prediction ends
StoreOutcomes == {"stored", "unavailable", "E11000 duplicate key", "other"}

EnhAmounts == {3000, 3001, 5001, 10001, 15000, 20001, 50001}
EnhAges == {6, 10, 30}
EnhHours == {1, 3, 14, 23}
EnhChannels == { <<"A","T","M">>, <<"p","o","s">>, <<" ","a","t","m">>,
                 <<"W","e","b">> }
EnhKycs == { <<"N","o">>, <<" ","N","O"," ">>, <<"Y","e","s">>,
             <<"m","a","y","b","e">>, <<>>, <<" ">> }

\* the requests EnhancedPredictionInput accepts, on a grid of values
EnhancedInputs ==
    [customer_id : {"C123"},
     account_age_days : EnhAges,
     transaction_amount : EnhAmounts,
     channel : EnhChannels,
     kyc_verified : EnhKycs,
     hour : EnhHours]

\* _run_model_prediction: the classifier's verdict with the risk level and
\* the legacy confidence
_run_model_prediction(verdict) ==
    [prediction |-> verdict.prediction,
     fraud_probability |-> verdict.fraud_probability,
     risk_level |-> _determine_risk_level(verdict.fraud_probability),
     confidence |-> IF verdict.fraud_probability >= 50
                    THEN (verdict.fraud_probability - 50) * 2
                    ELSE (50 - verdict.fraud_probability) * 2]

\* a store call whose except clause prints the exception and raises it again
\* unless it is a duplicate key
StoreRecordReraises(outcome) ==
    [stored |-> outcome = "stored",
     logged |-> outcome \notin {"stored", "E11000 duplicate key"},
     raised |-> outcome \notin {"stored", "E11000 duplicate key"}]

\* _store_prediction_record: every exception of create_prediction is caught,
\* and printed unless its text holds E11000; nothing is raised to the caller
_store_prediction_record(outcome) ==
    [stored |-> outcome = "stored",
     logged |-> outcome \notin {"stored", "E11000 duplicate key"},
     raised |-> FALSE]

EnhIdle == [pc |-> "idle"]

\* predict_fraud_enhanced
predict_fraud_enhanced(transaction, verdict, now, outcome) ==
    /\ enh.pc = "idle"
    /\ LET engineered == _build_engineered_features_basic(
                             transaction.transaction_amount,
                             transaction.account_age_days, transaction.hour,
                             transaction.channel, transaction.kyc_verified, now)
       IN IF ~verdict.ok
          THEN enh' = [pc |-> "done", status |-> 500,
                       transaction |-> transaction, verdict |-> verdict]
          ELSE LET ml_result == _run_model_prediction(verdict)
                   fused == _apply_rule_based_detection(
                                transaction.transaction_amount,
                                transaction.account_age_days, transaction.hour,
                                transaction.kyc_verified, transaction.channel,
                                ml_result.prediction, ml_result.fraud_probability)
                   risk_level == _determine_risk_level(ml_result.fraud_probability)
                   risk_factors == _derive_risk_factors(
                                transaction.transaction_amount,
                                transaction.account_age_days, transaction.hour,
                                transaction.kyc_verified, transaction.channel)
                   response ==
                       [transaction_id |-> transaction.customer_id,
                        prediction |-> IF fused.final_prediction = 1
                                       THEN "Fraud" ELSE "Legitimate",
                        risk_score |-> ml_result.fraud_probability,
                        confidence |-> ml_result.fraud_probability,
                        reason |-> fused.reason,
                        rule_flags |-> fused.rule_flags,
                        risk_level |-> risk_level,
                        risk_factors |-> risk_factors]
                   store == _store_prediction_record(outcome)
               IN IF store.raised
                  THEN enh' = [pc |-> "done", status |-> 500,
                               transaction |-> transaction, verdict |-> verdict,
                               outcome |-> outcome, store |-> store]
                  ELSE enh' = [pc |-> "done", status |-> 200,
                               transaction |-> transaction, verdict |-> verdict,
                               engineered |-> engineered,
                               final_prediction |-> fused.final_prediction,
                               response |-> response,
                               outcome |-> outcome, store |-> store]
    /\ UNCHANGED <<fb, rl, model, hasBoost, sims, SIMULATION_BUFFER, inserted, ov, csv, mem, leg>>


----------------------------------------------------------------------------
(* Legacy prediction: main.py *)

\* the one-hot fields of TransactionInput, each an int with default 0
FlagFields ==
    {"channel_Atm", "channel_Mobile", "channel_Pos", "channel_Web",
     "kyc_verified_No", "kyc_verified_Yes"}

LegacySteps == {0, 25, 743}
LegacyAmounts == {0, 5000, 5001}

\* TransactionInput built from a body that gives step and amount and sets
\* the flags of `given` to 1; a flag the body omits takes its default
TransactionInput(step, amount, given) ==
    [f \in FlagFields |-> IF f \in given THEN 1 ELSE 0]
    @@ [step |-> step, type |-> 0, amount |-> amount]

\* the requests TransactionInput accepts, on a grid of values
LegacyInputs ==
    {TransactionInput(step, amount, given) :
        step \in LegacySteps, amount \in LegacyAmounts, given \in SUBSET FlagFields}

LegacyVerdicts ==
    { [ok |-> FALSE],
      [ok |-> TRUE, prediction |-> 0, fraud_probability |-> 30],
      [ok |-> TRUE, prediction |-> 1, fraud_probability |-> 70] }

\* _prepare_legacy_features: the flags are copied from the request
_prepare_legacy_features(transaction) ==
    [account_age_days |-> 0,
     transaction_amount |-> transaction.amount,
     hour |-> transaction.step % 24,
     weekday |-> (transaction.step \div 24) % 7,
     month |-> (transaction.step \div (24 * 30)) % 12,
     is_high_value |-> IF transaction.amount > 5000 THEN 1 ELSE 0,
     transaction_amount_log |->
         IF transaction.amount <= 0 THEN 0 ELSE Log1p(transaction.amount),
     channel_Atm |-> transaction.channel_Atm,
     channel_Mobile |-> transaction.channel_Mobile,
     channel_Pos |-> transaction.channel_Pos,
     channel_Web |-> transaction.channel_Web,
     kyc_verified_No |-> transaction.kyc_verified_No,
     kyc_verified_Yes |-> transaction.kyc_verified_Yes]

\* predict_fraud: the handler has no try block, so an exception of the
\* classifier ends the request with status 500
predict_fraud(transaction, verdict, outcome) ==
    /\ leg.pc = "idle"
    /\ LET engineered == _prepare_legacy_features(transaction)
       IN IF ~verdict.ok
          THEN leg' = [pc |-> "done", status |-> 500,
                       transaction |-> transaction, engineered |-> engineered]
          ELSE LET prediction == _run_model_prediction(verdict)
                   store == _store_prediction_record(outcome)
               IN leg' = [pc |-> "done", status |-> 200,
                          transaction |-> transaction, engineered |-> engineered,
                          store |-> store,
                          response |->
                              [fraud_prediction |-> prediction.prediction,
                               fraud_probability |-> prediction.fraud_probability,
                               risk_level |-> prediction.risk_level]]
    /\ UNCHANGED <<fb, rl, enh, model, hasBoost, sims, SIMULATION_BUFFER, inserted, ov, csv, mem>>

----------------------------------------------------------------------------
(* Batch simulation: routers/simulation.py *)

SIMULATION_BUFFER_LIMIT == 500

INDIAN_CITIES == {"Mumbai", "Delhi"}

\* dict.get(key, default)
Get(d, key, default) == IF key \in DOMAIN d THEN d[key] ELSE default

\* the transactions a batch is made of: one without risk factors and
\* without a location, one with one risk factor, one with five, and one
\* that lacks the required field "hour"
TxnPlain ==
    [customer_id |-> "C0", account_age_days |-> 400,
     transaction_amount |-> 1200, channel |-> <<"W","e","b">>,
     kyc_verified |-> <<"Y","e","s">>, hour |-> 14,
     timestamp |-> "t0"]
TxnLarge ==
    [customer_id |-> "C1", account_age_days |-> 400,
     transaction_amount |-> 15000, channel |-> <<"M","o","b","i","l","e">>,
     kyc_verified |-> <<"Y","e","s">>, hour |-> 14,
     location |-> "Pune", timestamp |-> "t1"]
TxnRisky ==
    [customer_id |-> "C2", account_age_days |-> 10,
     transaction_amount |-> 25000, channel |-> <<"A","T","M">>,
     kyc_verified |-> <<"N","o">>, hour |-> 3,
     location |-> "Surat", timestamp |-> "t2"]
TxnBad ==
    [customer_id |-> "C3", account_age_days |-> 400,
     transaction_amount |-> 1200, channel |-> <<"W","e","b">>,
     kyc_verified |-> <<"Y","e","s">>]

ValidKinds == {TxnPlain, TxnLarge, TxnRisky}
TxnKinds == ValidKinds \cup {TxnBad}
LocatedKinds == {TxnLarge, TxnRisky}

\* what the loaded classifier answers on a transaction of the batch
BatchVerdicts ==
    { [ok |-> FALSE],
      [ok |-> TRUE, prediction |-> 0, fraud_probability |-> 10],
      [ok |-> TRUE, prediction |-> 0, fraud_probability |-> 45],
      [ok |-> TRUE, prediction |-> 1, fraud_probability |-> 80] }
\* the classifier fails, if at all, on the transaction without risk factors
Models == {m \in [ValidKinds -> BatchVerdicts] :
              /\ m[TxnLarge].ok
              /\ m[TxnRisky].ok
              /\ m[TxnRisky].fraud_probability # 45}

\* the batch of n transactions that repeats a pattern of kinds
Repeat(pattern, n) == [i \in 1..n |-> pattern[((i - 1) % Len(pattern)) + 1]]

Patterns(kinds) == UNION {[1..k -> kinds] : k \in 1..MaxPattern}

SmallSizes == {1, 2, 3}
LargeSizes == {10, 100}
SmallConcurrency == {-1, 0, 1, 2}
LargeConcurrency == {30}

\* the requests SimulationRequest accepts, on a grid of values
SimulationRequests ==
    {[transactions |-> Repeat(p, n), concurrency |-> c] :
        p \in Patterns(TxnKinds), n \in SmallSizes, c \in SmallConcurrency}
    \cup
    {[transactions |-> Repeat(p, n), concurrency |-> c] :
        p \in Patterns(LocatedKinds), n \in LargeSizes, c \in LargeConcurrency}

\* EnhancedPredictionInput(**txn_data) raises unless every field is there
RequiredFields == {"customer_id", "account_age_days", "transaction_amount",
                   "channel", "kyc_verified", "hour"}
Validates(txn_data) == RequiredFields \subseteq DOMAIN txn_data

Min(a, b) == IF a < b THEN a ELSE b
Max(a, b) == IF a > b THEN a ELSE b

\* _apply_demo_boost: with two or more risk factors the label is forced to
\* 1, the probability raised by 0.15 per factor up to 0.99 and the risk
\* level forced to High
_apply_demo_boost(prediction, risk_factors) ==
    IF Len(risk_factors) >= 2
    THEN LET boosted == Min(99, prediction.fraud_probability
                                + 15 * Len(risk_factors))
         IN [prediction |-> 1,
             fraud_probability |-> boosted,
             risk_level |-> "High",
             confidence |-> boosted]
    ELSE prediction

\* the except branch of process_single_transaction
ErrorResult(txn_data, error) ==
    [transaction_id |-> Get(txn_data, "customer_id", "unknown"),
     error |-> error,
     prediction |-> "Error",
     fraud_probability |-> 0,
     risk_level |-> "Unknown",
     confidence |-> 0]

\* the try block of process_single_transaction; city is what random.choice
\* returns when the transaction carries no location
process_single_transaction(txn_data, verdict, city) ==
    IF ~Validates(txn_data) THEN ErrorResult(txn_data, "validation error")
    ELSE IF ~verdict.ok THEN ErrorResult(txn_data, "classifier error")
    ELSE
    LET raw == _run_model_prediction(verdict)
        risk_factors == _derive_risk_factors(
            txn_data.transaction_amount, txn_data.account_age_days,
            txn_data.hour, txn_data.kyc_verified, txn_data.channel)
        raw_prediction == raw.prediction
        raw_probability == raw.fraud_probability
        prediction == _apply_demo_boost(raw, risk_factors)
        demo_boosted == prediction.prediction = 1 /\ raw_prediction = 0
    IN [transaction_id |-> txn_data.customer_id,
        customer_id |-> txn_data.customer_id,
        prediction |-> IF prediction.prediction = 1 THEN "Fraud" ELSE "Legitimate",
        is_fraud |-> IF prediction.prediction = 1 THEN 1 ELSE 0,
        fraud_probability |-> prediction.fraud_probability,
        risk_level |-> prediction.risk_level,
        confidence |-> prediction.confidence,
        risk_factors |-> risk_factors,
        risk_factor_count |-> Len(risk_factors),
        raw_model_prediction |-> IF raw_prediction = 1 THEN "Fraud" ELSE "Legitimate",
        raw_model_probability |-> raw_probability,
        demo_boosted |-> demo_boosted,
        simulation_override |-> FALSE,
        transaction_amount |-> txn_data.transaction_amount,
        channel |-> txn_data.channel,
        hour |-> txn_data.hour,
        account_age_days |-> txn_data.account_age_days,
        kyc_verified |-> txn_data.kyc_verified,
        location |-> Get(txn_data, "location", city),
        timestamp |-> Get(txn_data, "timestamp", "utcnow")]


\* int(round(total * pct / 100)): Python rounds halves to the even integer
RoundPct(total, pct) ==
    LET q == (total * pct) \div 100
        r == (total * pct) % 100
    IN IF r > 50 \/ (r = 50 /\ q % 2 = 1) THEN q + 1 ELSE q

\* lower_bound of _enforce_target_fraud_ratio
LowerBound(total) == Min(Max(1, RoundPct(total, 9)), total)

\* upper_bound of _enforce_target_fraud_ratio
UpperBound(total) ==
    LET lower0 == Max(1, RoundPct(total, 9))
        upper0 == Max(lower0, RoundPct(total, 15))
    IN Min(Max(upper0, LowerBound(total)), total)

\* the values random.randint(lower_bound, upper_bound) can return
TargetBand(total) == LowerBound(total)..UpperBound(total)

\* a count that takes every result that is not Legitimate for a Fraud one
FraudCountNotLegitimate(results) ==
    Cardinality({i \in 1..Len(results) : results[i].prediction # "Legitimate"})

\* the number of results whose prediction is Fraud
FraudCount(results) ==
    Cardinality({i \in 1..Len(results) : results[i].prediction = "Fraud"})

\* a pair of sort keys compared as Python compares tuples
KeyLess(a, b) == a[1] < b[1] \/ (a[1] = b[1] /\ a[2] < b[2])

\* key of the deficit sort (reverse=True)
DeficitKey(r) == <<Get(r, "risk_factor_count", 0), Get(r, "raw_model_probability", 0)>>

\* key of the surplus sort
SurplusKey(r) ==
    <<IF Get(r, "simulation_override", FALSE) THEN 0 ELSE 1,
      Get(r, "raw_model_probability", 0)>>

\* the deficit sort without reverse=True
DeficitBeforeAscending(a, b) == KeyLess(DeficitKey(a), DeficitKey(b))

\* whether a is sorted before b by the deficit sort (reverse=True)
DeficitBefore(a, b) == KeyLess(DeficitKey(b), DeficitKey(a))

\* the surplus sort with reverse=True
SurplusBeforeDescending(a, b) == KeyLess(SurplusKey(b), SurplusKey(a))

\* whether a is sorted before b by the surplus sort
SurplusBefore(a, b) == KeyLess(SurplusKey(a), SurplusKey(b))

\* position (from 0) of candidate i after the deficit sort; list.sort is
\* stable in both directions, so equal keys stay in list order
DeficitPosition(results, candidates, i) ==
    Cardinality({j \in candidates :
        \/ DeficitBefore(results[j], results[i])
        \/ (~DeficitBefore(results[i], results[j]) /\ j < i)})

\* position (from 0) of candidate i after the surplus sort
SurplusPosition(results, candidates, i) ==
    Cardinality({j \in candidates :
        \/ SurplusBefore(results[j], results[i])
        \/ (~SurplusBefore(results[i], results[j]) /\ j < i)})

\* a deficit branch that also writes the new probability and label into the
\* raw fields
InjectAnomalyOverwritesRaw(entry) ==
    LET p == Min(97, Max(Get(entry, "fraud_probability", 50),
                         Get(entry, "raw_model_probability", 20) + 20))
    IN [prediction |-> "Fraud",
        fraud_probability |-> p,
        raw_model_prediction |-> "Fraud",
        raw_model_probability |-> p,
        risk_level |-> _label_from_probability(p),
        confidence |-> p,
        risk_factors |-> Append(Get(entry, "risk_factors", <<>>),
                                "Simulation anomaly injection"),
        simulation_override |-> TRUE,
        is_fraud |-> 1] @@ entry

\* the deficit branch applied to one entry
InjectAnomaly(entry) ==
    LET p == Min(97, Max(Get(entry, "fraud_probability", 50),
                         Get(entry, "raw_model_probability", 20) + 20))
    IN [prediction |-> "Fraud",
        fraud_probability |-> p,
        risk_level |-> _label_from_probability(p),
        confidence |-> p,
        risk_factors |-> Append(Get(entry, "risk_factors", <<>>),
                                "Simulation anomaly injection"),
        simulation_override |-> TRUE,
        is_fraud |-> 1] @@ entry

\* a surplus branch that leaves is_fraud as scoring wrote it
NormalizeKeepsIsFraud(entry) ==
    LET p == Min(Get(entry, "raw_model_probability", 10), 35)
    IN [prediction |-> "Legitimate",
        fraud_probability |-> p,
        risk_level |-> _label_from_probability(p),
        confidence |-> p,
        risk_factors |-> Append(Get(entry, "risk_factors", <<>>),
                                "Simulation normalization"),
        simulation_override |-> TRUE] @@ entry

\* the surplus branch applied to one entry
Normalize(entry) ==
    LET p == Min(Get(entry, "raw_model_probability", 10), 35)
    IN [prediction |-> "Legitimate",
        fraud_probability |-> p,
        risk_level |-> _label_from_probability(p),
        confidence |-> p,
        risk_factors |-> Append(Get(entry, "risk_factors", <<>>),
                                "Simulation normalization"),
        simulation_override |-> TRUE,
        is_fraud |-> 0] @@ entry

\* the pass with the deficit branch taking one candidate too few
EnforceOneShort(results, target_fraud) ==
    LET current_fraud == FraudCount(results)
        legit == {i \in 1..Len(results) : results[i].prediction = "Legitimate"}
        fraud == {i \in 1..Len(results) : results[i].prediction = "Fraud"}
    IN IF results = <<>> THEN results
       ELSE IF current_fraud < target_fraud
       THEN [i \in 1..Len(results) |->
                IF i \in legit /\ DeficitPosition(results, legit, i)
                                    < target_fraud - current_fraud - 1
                THEN InjectAnomaly(results[i]) ELSE results[i]]
       ELSE IF current_fraud > target_fraud
       THEN [i \in 1..Len(results) |->
                IF i \in fraud /\ SurplusPosition(results, fraud, i)
                                    < current_fraud - target_fraud
                THEN Normalize(results[i]) ELSE results[i]]
       ELSE results

\* the pass with every result that is not Fraud taken as a deficit candidate
EnforceAnyCandidate(results, target_fraud) ==
    LET current_fraud == FraudCount(results)
        legit == {i \in 1..Len(results) : results[i].prediction # "Fraud"}
        fraud == {i \in 1..Len(results) : results[i].prediction = "Fraud"}
    IN IF results = <<>> THEN results
       ELSE IF current_fraud < target_fraud
       THEN [i \in 1..Len(results) |->
                IF i \in legit /\ DeficitPosition(results, legit, i)
                                    < target_fraud - current_fraud
                THEN InjectAnomaly(results[i]) ELSE results[i]]
       ELSE IF current_fraud > target_fraud
       THEN [i \in 1..Len(results) |->
                IF i \in fraud /\ SurplusPosition(results, fraud, i)
                                    < current_fraud - target_fraud
                THEN Normalize(results[i]) ELSE results[i]]
       ELSE results

\* _enforce_target_fraud_ratio, target_fraud being the value drawn by
\* random.randint
_enforce_target_fraud_ratio(results, target_fraud) ==
    LET current_fraud == FraudCount(results)
        legit == {i \in 1..Len(results) : results[i].prediction = "Legitimate"}
        fraud == {i \in 1..Len(results) : results[i].prediction = "Fraud"}
    IN IF results = <<>> THEN results
       ELSE IF current_fraud < target_fraud
       THEN [i \in 1..Len(results) |->
                IF i \in legit /\ DeficitPosition(results, legit, i)
                                    < target_fraud - current_fraud
                THEN InjectAnomaly(results[i]) ELSE results[i]]
       ELSE IF current_fraud > target_fraud
       THEN [i \in 1..Len(results) |->
                IF i \in fraud /\ SurplusPosition(results, fraud, i)
                                    < current_fraud - target_fraud
                THEN Normalize(results[i]) ELSE results[i]]
       ELSE results

\* the overlay entry _update_simulation_overlay builds from one result; city
\* is what random.choice returns when the result carries no location
OverlayEntry(entry, city) ==
    [transaction_id |-> Get(entry, "transaction_id", "None"),
     customer_id |-> Get(entry, "customer_id", Get(entry, "transaction_id", "None")),
     transaction_amount |-> Get(entry, "transaction_amount", 0),
     channel |-> Get(entry, "channel", <<"M","o","b","i","l","e">>),
     location |-> Get(entry, "location", city),
     hour |-> Get(entry, "hour", "utcnow"),
     timestamp |-> Get(entry, "timestamp", "utcnow"),
     kyc_verified |-> Get(entry, "kyc_verified", <<"N","o">>),
     account_age_days |-> Get(entry, "account_age_days", 0),
     prediction |-> Get(entry, "prediction", "Legitimate"),
     is_fraud |-> Get(entry, "is_fraud", 0),
     fraud_probability |-> Get(entry, "fraud_probability", 0),
     risk_level |-> Get(entry, "risk_level", "Low"),
     simulation_override |-> Get(entry, "simulation_override", FALSE),
     demo_boosted |-> Get(entry, "demo_boosted", FALSE)]

\* a deque that drops the newest entries once it is full
AppendKeepsOldest(buffer, entries) ==
    LET all == buffer \o entries
    IN IF Len(all) <= SIMULATION_BUFFER_LIMIT THEN all
       ELSE SubSeq(all, 1, SIMULATION_BUFFER_LIMIT)

\* deque(maxlen=SIMULATION_BUFFER_LIMIT).append for each entry in turn
AppendBounded(buffer, entries) ==
    LET all == buffer \o entries
    IN IF Len(all) <= SIMULATION_BUFFER_LIMIT THEN all
       ELSE SubSeq(all, Len(all) - SIMULATION_BUFFER_LIMIT + 1, Len(all))

\* the overlay entries built from the results of one batch
OverlayEntries(results, cities) ==
    [i \in 1..Len(results) |->
        OverlayEntry(results[i], IF i \in DOMAIN cities THEN cities[i] ELSE "None")]

\* _update_simulation_overlay
_update_simulation_overlay(buffer, results, cities) ==
    AppendBounded(buffer, OverlayEntries(results, cities))

\* the indexes of a sequence of dicts that carry no location
Unlocated(dicts, idx) == {i \in idx : "location" \notin DOMAIN dicts[i]}

SimIdle == [pc |-> "idle"]

\* run_batch_simulation up to the loop, in slot h: range(0, len, concurrency)
\* raises ValueError on a zero step
run_batch_start(h, request) ==
    /\ sims[h].pc \in {"idle", "done", "aborted"}
    /\ IF request.concurrency = 0
       THEN sims' = [sims EXCEPT ![h] =
                       [pc |-> "aborted", status |-> 500, request |-> request,
                        results |-> <<>>]]
       ELSE sims' = [sims EXCEPT ![h] =
                       [pc |-> "loop", request |-> request, i |-> 0,
                        results |-> <<>>]]
    /\ UNCHANGED <<fb, rl, enh, model, hasBoost, SIMULATION_BUFFER, inserted, ov, csv, mem, leg>>

\* whether range(0, len(transactions), concurrency) still yields i
InRange(request, i) ==
    request.concurrency > 0 /\ i < Len(request.transactions)

\* the results of the chunk that starts after index i
ChunkResults(request, i, cities) ==
    LET txns == request.transactions
        last == Min(i + request.concurrency, Len(txns))
    IN [k \in 1..(last - i) |->
          LET j == i + k
          IN process_single_transaction(
                txns[j],
                IF txns[j] \in ValidKinds THEN model[txns[j]] ELSE [ok |-> FALSE],
                IF j \in DOMAIN cities THEN cities[j] ELSE "None")]

\* one iteration of the loop in slot h: the chunk is gathered and its
\* results are appended.  The import at the head of
\* process_single_transaction is outside its try block: when it raises,
\* gather raises and the handler ends without a response body
ScoreChunk(h) ==
    /\ sims[h].pc = "loop"
    /\ InRange(sims[h].request, sims[h].i)
    /\ LET s == sims[h]
           txns == s.request.transactions
           last == Min(s.i + s.request.concurrency, Len(txns))
           chunk == (s.i + 1)..last
       IN IF ~hasBoost
          THEN sims' = [sims EXCEPT ![h] =
                          [pc |-> "aborted", status |-> 500,
                           request |-> s.request, results |-> s.results]]
          ELSE \E cities \in [Unlocated(txns, chunk) -> INDIAN_CITIES] :
                 sims' = [sims EXCEPT ![h] =
                            [s EXCEPT !.results = @ \o ChunkResults(s.request, s.i, cities),
                                      !.i = @ + s.request.concurrency]]
    /\ UNCHANGED <<fb, rl, enh, model, hasBoost, SIMULATION_BUFFER, inserted, ov, csv, mem, leg>>

\* the rest of the handler with a suspension in the middle of the insertion
\* loop: the first entry is appended, the others after the handler resumes
FinishBatchYields(h) ==
    \/ /\ sims[h].pc = "loop"
       /\ ~InRange(sims[h].request, sims[h].i)
       /\ \E target_fraud \in IF sims[h].results = <<>> THEN {0}
                              ELSE TargetBand(Len(sims[h].results)) :
          \E cities \in [Unlocated(sims[h].results, 1..Len(sims[h].results))
                           -> INDIAN_CITIES] :
            LET results == _enforce_target_fraud_ratio(sims[h].results, target_fraud)
                entries == OverlayEntries(results, cities)
            IN IF results = <<>>
               THEN /\ sims' = [sims EXCEPT ![h] =
                          [pc |-> "done", status |-> 200,
                           request |-> sims[h].request, scored |-> sims[h].results,
                           target_fraud |-> target_fraud, results |-> results,
                           total_processed |-> 0, fraudulent_count |-> 0]]
                    /\ UNCHANGED <<SIMULATION_BUFFER, inserted>>
               ELSE /\ SIMULATION_BUFFER' =
                          AppendBounded(SIMULATION_BUFFER, <<entries[1]>>)
                    /\ sims' = [sims EXCEPT ![h] =
                          [pc |-> "inserting", request |-> sims[h].request,
                           i |-> sims[h].i, scored |-> sims[h].results,
                           target_fraud |-> target_fraud, results |-> results,
                           entries |-> entries]]
                    /\ UNCHANGED inserted
       /\ UNCHANGED <<fb, rl, enh, model, hasBoost, ov, csv, mem, leg>>
    \/ /\ sims[h].pc = "inserting"
       /\ SIMULATION_BUFFER' = AppendBounded(SIMULATION_BUFFER, Tail(sims[h].entries))
       /\ inserted' = Append(inserted, sims[h].entries)
       /\ sims' = [sims EXCEPT ![h] =
             [pc |-> "done", status |-> 200,
              request |-> sims[h].request, scored |-> sims[h].scored,
              target_fraud |-> sims[h].target_fraud, results |-> sims[h].results,
              total_processed |-> Len(sims[h].results),
              fraudulent_count |-> FraudCount(sims[h].results)]]
       /\ UNCHANGED <<fb, rl, enh, model, hasBoost, ov, csv, mem, leg>>

\* the rest of the handler with the overlay updated before the ratio is
\* enforced
FinishBatchInsertsScored(h) ==
    /\ sims[h].pc = "loop"
    /\ ~InRange(sims[h].request, sims[h].i)
    /\ \E target_fraud \in IF sims[h].results = <<>> THEN {0}
                           ELSE TargetBand(Len(sims[h].results)) :
       \E cities \in [Unlocated(sims[h].results, 1..Len(sims[h].results))
                        -> INDIAN_CITIES] :
         LET results == _enforce_target_fraud_ratio(sims[h].results, target_fraud)
         IN /\ SIMULATION_BUFFER' =
                  _update_simulation_overlay(SIMULATION_BUFFER, sims[h].results, cities)
            /\ inserted' = IF results = <<>> THEN inserted
                           ELSE Append(inserted, OverlayEntries(sims[h].results, cities))
            /\ sims' = [sims EXCEPT ![h] =
                          [pc |-> "done", status |-> 200,
                           request |-> sims[h].request,
                           scored |-> sims[h].results,
                           target_fraud |-> target_fraud,
                           results |-> results,
                           total_processed |-> Len(results),
                           fraudulent_count |-> FraudCount(results)]]
    /\ UNCHANGED <<fb, rl, enh, model, hasBoost, ov, csv, mem, leg>>

\* the rest of run_batch_simulation in slot h, run without suspension after
\* the last chunk: ratio enforcement, overlay update and the summary
FinishBatch(h) ==
    /\ sims[h].pc = "loop"
    /\ ~InRange(sims[h].request, sims[h].i)
    /\ \E target_fraud \in IF sims[h].results = <<>> THEN {0}
                           ELSE TargetBand(Len(sims[h].results)) :
       \E cities \in [Unlocated(sims[h].results, 1..Len(sims[h].results))
                        -> INDIAN_CITIES] :
         LET results == _enforce_target_fraud_ratio(sims[h].results, target_fraud)
         IN /\ SIMULATION_BUFFER' =
                  _update_simulation_overlay(SIMULATION_BUFFER, results, cities)
            /\ inserted' = IF results = <<>> THEN inserted
                           ELSE Append(inserted, OverlayEntries(results, cities))
            /\ sims' = [sims EXCEPT ![h] =
                          [pc |-> "done", status |-> 200,
                           request |-> sims[h].request,
                           scored |-> sims[h].results,
                           target_fraud |-> target_fraud,
                           results |-> results,
                           total_processed |-> Len(results),
                           fraudulent_count |-> FraudCount(results)]]
    /\ UNCHANGED <<fb, rl, enh, model, hasBoost, ov, csv, mem, leg>>

\* round(num / den) to an integer, halves going to the even neighbour
RoundRatio(num, den) ==
    LET q == num \div den
        r == num % den
    IN IF 2 * r > den THEN q + 1
       ELSE IF 2 * r = den THEN q + (q % 2)
       ELSE q

\* the sum of transaction_amount over the first n entries that are on the
\* channel
RECURSIVE AmountSum(_, _, _)
AmountSum(entries, channel, n) ==
    IF n = 0 THEN 0
    ELSE AmountSum(entries, channel, n - 1)
         + (IF entries[n].channel = channel THEN entries[n].transaction_amount ELSE 0)

\* the statistics _build_channel_summary keeps for one channel; the rates
\* and averages are in hundredths, as round(x, 2) leaves them
ChannelStats(entries, channel) ==
    LET members == {i \in 1..Len(entries) : entries[i].channel = channel}
        total == Cardinality(members)
        fraud_count == Cardinality({i \in members : entries[i].is_fraud = 1})
    IN [channel |-> channel,
        total |-> total,
        fraud_count |-> fraud_count,
        fraud_rate |-> RoundRatio(fraud_count * 10000, total),
        avg_amount |-> RoundRatio(AmountSum(entries, channel, Len(entries)) * 100, total)]

\* a channel summary left in order of first appearance
BuildChannelSummaryUnsorted(entries) ==
    LET first == {i \in 1..Len(entries) :
                    \A j \in 1..(i - 1) : entries[j].channel # entries[i].channel}
        position(i) == Cardinality({j \in first : j < i})
    IN [k \in 1..Cardinality(first) |->
          ChannelStats(entries,
                       entries[CHOOSE i \in first : position(i) = k - 1].channel)]

\* _build_channel_summary: one record per channel, the channels taken in
\* order of first appearance and then sorted by fraud_rate, highest first
\* (list.sort is stable)
_build_channel_summary(entries) ==
    LET first == {i \in 1..Len(entries) :
                    \A j \in 1..(i - 1) : entries[j].channel # entries[i].channel}
        rate(i) == ChannelStats(entries, entries[i].channel).fraud_rate
        position(i) == Cardinality({j \in first :
                          rate(j) > rate(i) \/ (rate(j) = rate(i) /\ j < i)})
    IN [k \in 1..Cardinality(first) |->
          ChannelStats(entries,
                       entries[CHOOSE i \in first : position(i) = k - 1].channel)]

\* the limits the overlay is read with
OverlayLimits == {-1, 0, 1, 2, 500, 501}

\* an overlay read that takes the oldest entries of the deque
GetOverlayOldest(limit) ==
    /\ LET lim == IF limit <= 0 \/ limit > SIMULATION_BUFFER_LIMIT
                  THEN SIMULATION_BUFFER_LIMIT ELSE limit
           n == Len(SIMULATION_BUFFER)
           snapshot == SubSeq(SIMULATION_BUFFER, 1, Min(lim, n))
           total == Len(snapshot)
           fraud_count == Cardinality({i \in 1..total : snapshot[i].is_fraud = 1})
       IN ov' = [status |-> 200,
                 limit |-> limit,
                 total |-> total,
                 fraud_count |-> fraud_count,
                 fraud_rate |-> IF total > 0
                                THEN RoundRatio(fraud_count * 10000, total) ELSE 0,
                 last_updated |-> IF total > 0
                                  THEN snapshot[total].timestamp ELSE "None",
                 transactions |-> snapshot,
                 channel_summary |-> _build_channel_summary(snapshot)]
    /\ UNCHANGED <<fb, rl, enh, model, hasBoost, sims, SIMULATION_BUFFER, inserted, csv, mem, leg>>

\* get_simulation_overlay
get_simulation_overlay(limit) ==
    /\ LET lim == IF limit <= 0 \/ limit > SIMULATION_BUFFER_LIMIT
                  THEN SIMULATION_BUFFER_LIMIT ELSE limit
           n == Len(SIMULATION_BUFFER)
           snapshot == SubSeq(SIMULATION_BUFFER, Max(1, n - lim + 1), n)
           total == Len(snapshot)
           fraud_count == Cardinality({i \in 1..total : snapshot[i].is_fraud = 1})
       IN ov' = [status |-> 200,
                 limit |-> limit,
                 total |-> total,
                 fraud_count |-> fraud_count,
                 fraud_rate |-> IF total > 0
                                THEN RoundRatio(fraud_count * 10000, total) ELSE 0,
                 last_updated |-> IF total > 0
                                  THEN snapshot[total].timestamp ELSE "None",
                 transactions |-> snapshot,
                 channel_summary |-> _build_channel_summary(snapshot)]
    /\ UNCHANGED <<fb, rl, enh, model, hasBoost, sims, SIMULATION_BUFFER, inserted, csv, mem, leg>>

----------------------------------------------------------------------------
(* The objects of a batch run.  A Python dict or list is an object with an
   address; a field holds either an immutable value or the address of an
   object.  The fields of a result that can hold an object are risk_factors
   (the list built by _derive_risk_factors) and location, which
   process_single_transaction takes from the request as it is: the
   request declares transactions as List[Dict[str, Any]], so a location may
   be a text or a JSON object *)

\* a field value that is immutable
Scalar(v) == [at |-> <<>>, val |-> v]

\* a field value that is the object at an address
Ref(a) == [at |-> a, val |-> ""]

\* the value a reader sees through a field: the value itself, or the content
\* of the object it points to
Deref(heap, v) == IF v.at = <<>> THEN v.val ELSE heap[v.at]

\* the elements of a list
Range(list) == {list[k] : k \in 1..Len(list)}

\* the location forms a transaction of the request may carry
LocationForms == {"none", "text", "object"}

\* the transaction of a kind with its location in the given form; the
\* object of the i-th transaction is allocated when the body is parsed
WithLocation(kind, form, i) ==
    [f \in (DOMAIN kind \ {"location"})
             \cup (IF form = "none" THEN {} ELSE {"location"}) |->
        IF f = "location"
        THEN IF form = "text" THEN Scalar("Pune") ELSE Ref(<<"location", i>>)
        ELSE kind[f]]

\* the batches whose objects are tracked
MemSizes == {1, 2}
MemBatches ==
    UNION {[1..n -> LocatedKinds \X LocationForms] : n \in MemSizes}

\* what a reader sees of the overlay dict at an address
Seen(heap, a) ==
    [f \in DOMAIN heap[a] |->
        IF f = "location" THEN Deref(heap, heap[a][f]) ELSE heap[a][f]]

\* run_batch_simulation with every dict and list it creates put at an
\* address: the results are scored and passed through the ratio
\* enforcement, then _update_simulation_overlay builds one new dict per
\* result from entry.get(...) of fifteen fields and appends it
run_batch_objects(batch, target_fraud, cities) ==
    /\ mem.pc = "idle"
    /\ LET n == Len(batch)
           txns == [i \in 1..n |-> WithLocation(batch[i][1], batch[i][2], i)]
           scored == [i \in 1..n |->
                        process_single_transaction(txns[i], model[batch[i][1]],
                                                   Scalar(cities[i]))]
           results == _enforce_target_fraud_ratio(scored, target_fraud)
           parsed == [a \in {<<"location", i>> : i \in {j \in 1..n : batch[j][2] = "object"}}
                        |-> [city |-> "Pune"]]
           lists == [a \in {<<"risk_factors", i>> : i \in 1..n} |->
                        results[a[2]].risk_factors]
           dicts == [a \in {<<"result", i>> : i \in 1..n} |->
                        [results[a[2]] EXCEPT !.risk_factors = Ref(<<"risk_factors", a[2]>>)]]
           overlay == [a \in {<<"overlay", i>> : i \in 1..n} |->
                        OverlayEntry(dicts[<<"result", a[2]>>], Scalar(cities[a[2]]))]
           heap == parsed @@ lists @@ dicts @@ overlay
       IN IF ~hasBoost
          THEN mem' = [pc |-> "aborted"]
          ELSE mem' = [pc |-> "answered",
                       heap |-> heap,
                       results |-> [i \in 1..n |-> <<"result", i>>],
                       buffer |-> [i \in 1..n |-> <<"overlay", i>>],
                       stored |-> [i \in 1..n |-> Seen(heap, <<"overlay", i>>)]]
    /\ UNCHANGED <<fb, rl, enh, model, hasBoost, sims, SIMULATION_BUFFER, inserted, ov, csv, leg>>

\* the ways the holder of the returned results list can change a result
Mutations == {"field", "risk_factors", "location"}

\* a later mutation of the i-th result record: one of its fields is
\* assigned, its risk_factors list is appended to, or the object it holds as
\* location is changed in place
MutateResult(i, what) ==
    /\ mem.pc \in {"answered", "mutated"}
    /\ i \in 1..Len(mem.results)
    /\ LET d == mem.results[i]
           dict == mem.heap[d]
       IN \/ /\ what = "field"
             /\ dict.prediction # "Tampered"
             /\ mem' = [mem EXCEPT !.pc = "mutated",
                                   !.heap[d].prediction = "Tampered",
                                   !.heap[d].fraud_probability = 0]
          \/ /\ what = "risk_factors"
             /\ "Tampered" \notin Range(mem.heap[dict.risk_factors.at])
             /\ mem' = [mem EXCEPT !.pc = "mutated",
                                   !.heap[dict.risk_factors.at] = Append(@, "Tampered")]
          \/ /\ what = "location"
             /\ dict.location.at # <<>>
             /\ mem.heap[dict.location.at].city # "Tampered"
             /\ mem' = [mem EXCEPT !.pc = "mutated",
                                   !.heap[dict.location.at].city = "Tampered"]
    /\ UNCHANGED <<fb, rl, enh, model, hasBoost, sims, SIMULATION_BUFFER, inserted, ov, csv, leg>>

----------------------------------------------------------------------------
(* CSV batch prediction: predict_fraud_batch, main.py *)

CsvPlain ==
    [customer_id |-> "R0", transaction_amount |-> 1200,
     account_age_days |-> 400, channel |-> <<"W","e","b">>,
     kyc_verified |-> <<"Y","e","s">>, hour |-> 14]
CsvRisky ==
    [customer_id |-> "R1", transaction_amount |-> 15000,
     account_age_days |-> 10, channel |-> <<"A","T","M">>,
     kyc_verified |-> <<"N","o">>, hour |-> 3]
\* a row whose hour cell is empty: pandas reads NaN and int(NaN) raises
CsvNoHour ==
    [customer_id |-> "R2", transaction_amount |-> 1200,
     account_age_days |-> 400, channel |-> <<"W","e","b">>,
     kyc_verified |-> <<"Y","e","s">>]

CsvRows == {CsvPlain, CsvRisky, CsvNoHour}

CsvVerdicts ==
    { [ok |-> FALSE],
      [ok |-> TRUE, prediction |-> 0, fraud_probability |-> 35],
      [ok |-> TRUE, prediction |-> 1, fraud_probability |-> 80] }

\* an upload: no bytes, a table without the required columns, or rows
CsvFiles ==
    {[kind |-> "empty"], [kind |-> "missing columns"]}
    \cup {[kind |-> "table", rows |-> r] :
            r \in UNION {[1..n -> CsvRows] : n \in 0..MaxRows}}

\* float(...) and int(...) on the cells of a row succeed
Coercible(row) == "hour" \in DOMAIN row

\* the body of the row loop for a row that scores
CsvRowResult(idx, row, verdict) ==
    LET ml_result == _run_model_prediction(verdict)
        fused == _apply_rule_based_detection(
                     row.transaction_amount, row.account_age_days, row.hour,
                     row.kyc_verified, row.channel,
                     ml_result.prediction, ml_result.fraud_probability)
    IN [row |-> idx,
        transaction_id |-> row.customer_id,
        prediction |-> IF fused.final_prediction = 1 THEN "Fraud" ELSE "Legitimate",
        fraud_probability |-> ml_result.fraud_probability,
        risk_level |-> ml_result.risk_level,
        confidence |-> ml_result.confidence,
        reason |-> fused.reason,
        rule_flags |-> fused.rule_flags,
        risk_factors |-> _derive_risk_factors(
                     row.transaction_amount, row.account_age_days, row.hour,
                     row.kyc_verified, row.channel)]

CsvIdle == [pc |-> "idle"]

\* predict_fraud_batch: the row loop sits in the handler's single try block,
\* so the first row that raises ends the request with status 500
predict_fraud_batch(file, verdicts) ==
    /\ csv.pc = "idle"
    /\ IF file.kind # "table"
       THEN csv' = [pc |-> "done", status |-> 400, file |-> file,
                    verdicts |-> verdicts, results |-> <<>>]
       ELSE LET fails(i) == ~Coercible(file.rows[i]) \/ ~verdicts[i].ok
            IN IF \E i \in 1..Len(file.rows) : fails(i)
               THEN csv' = [pc |-> "done", status |-> 500, file |-> file,
                            verdicts |-> verdicts, results |-> <<>>]
               ELSE LET results == [i \in 1..Len(file.rows) |->
                                      CsvRowResult(i, file.rows[i], verdicts[i])]
                    IN csv' = [pc |-> "done", status |-> 200, file |-> file,
                               verdicts |-> verdicts, results |-> results,
                               total_records |-> Len(results),
                               fraudulent_predictions |->
                                   FraudCount(results)]
    /\ UNCHANGED <<fb, rl, enh, model, hasBoost, sims, SIMULATION_BUFFER, inserted, ov, mem, leg>>

----------------------------------------------------------------------------
(* Specifications *)

\* no legacy prediction has been served
LegIdle == [pc |-> "idle"]

\* no batch has been run with its objects tracked
MemIdle == [pc |-> "idle"]

\* no overlay read has been answered yet
OvNone == [status |-> 0]

\* the classifier is not consulted outside the batch simulation
NoModel == [k \in ValidKinds |-> [ok |-> FALSE]]

InitCommon ==
    /\ fb = FbIdle
    /\ rl = RlIdle
    /\ enh = EnhIdle
    /\ sims = [h \in Slots |-> SimIdle]
    /\ SIMULATION_BUFFER = <<>>
    /\ inserted = <<>>
    /\ ov = OvNone
    /\ csv = CsvIdle
    /\ mem = MemIdle
    /\ leg = LegIdle

InitSingle ==
    /\ InitCommon
    /\ model = NoModel
    /\ hasBoost = FALSE

\* the Feature Builder on its own
NextFeatures ==
    /\ fb.pc = "idle"
    /\ \E amount \in BuilderAmounts, channel \in ChannelInputs,
       kyc \in KycInputs, now \in Clock :
          BuildFeatures(amount, 400, 14, channel, kyc, now)

SpecFeatures == InitSingle /\ [][NextFeatures]_vars

\* the two risk labelers
NextRisk ==
    /\ rl.pc = "idle"
    /\ \E probability \in Probabilities : LabelRisk(probability)

SpecRisk == InitSingle /\ [][NextRisk]_vars

\* one request to /api/predict/enhanced
NextEnhanced ==
    /\ enh.pc = "idle"
    /\ \E transaction \in EnhancedInputs, verdict \in Verdicts, now \in Clock,
       outcome \in StoreOutcomes :
          predict_fraud_enhanced(transaction, verdict, now, outcome)

SpecEnhanced == InitSingle /\ [][NextEnhanced]_vars

\* one request to /api/simulation/batch
InitBatch ==
    /\ InitCommon
    /\ model \in Models
    /\ hasBoost \in BOOLEAN

NextBatch ==
    \/ /\ sim.pc = "idle"
       /\ \E request \in SimulationRequests : run_batch_start(1, request)
    \/ ScoreChunk(1)
    \/ FinishBatch(1)

SpecBatch == InitBatch /\ [][NextBatch]_vars

\* every entry appended to the deque so far, in order
RECURSIVE Flatten(_)
Flatten(batches) ==
    IF batches = <<>> THEN <<>>
    ELSE Flatten(SubSeq(batches, 1, Len(batches) - 1)) \o batches[Len(batches)]

\* batches large enough to fill the deque in two runs
RunSizes == {250, 251}
RunConcurrency == {125}
RunPattern == <<TxnLarge, TxnRisky, TxnLarge, TxnLarge, TxnLarge, TxnLarge>>
RunRequests ==
    {[transactions |-> Repeat(RunPattern, n), concurrency |-> c] :
        n \in RunSizes, c \in RunConcurrency}

\* a classifier that answers Legitimate with probability 0.10 throughout
RunModel ==
    [k \in ValidKinds |-> [ok |-> TRUE, prediction |-> 0, fraud_probability |-> 10]]

\* whether the entries of the request still fit under MaxInserted
FitsRuns(request) ==
    Len(Flatten(inserted)) + Len(request.transactions) <= MaxInserted

InitRuns ==
    /\ InitCommon
    /\ model = RunModel
    /\ hasBoost \in BOOLEAN

\* one batch run after the other, served by the same process
NextRuns ==
    \/ /\ sim.pc \in {"idle", "done", "aborted"}
       /\ \E request \in RunRequests :
            FitsRuns(request) /\ run_batch_start(1, request)
    \/ ScoreChunk(1)
    \/ FinishBatch(1)

SpecRuns == InitRuns /\ [][NextRuns]_vars

\* two batches small enough to interleave in every way
ConcBatches == {Repeat(<<TxnLarge, TxnRisky>>, 3), Repeat(<<TxnRisky>>, 2)}
ConcConcurrency == {1, 2}
ConcRequests ==
    {[transactions |-> t, concurrency |-> c] : t \in ConcBatches, c \in ConcConcurrency}

\* two requests to /api/simulation/batch and a read of the overlay, served
\* by one event loop: a handler runs until its next await, so the steps of
\* the handlers interleave at the gather of each chunk
NextConcurrent ==
    \/ \E h \in Slots :
         /\ sims[h].pc = "idle"
         /\ \E request \in ConcRequests : run_batch_start(h, request)
    \/ \E h \in Slots : ScoreChunk(h)
    \/ \E h \in Slots : FinishBatch(h)
    \/ /\ ov = OvNone
       /\ \E limit \in OverlayLimits : get_simulation_overlay(limit)

SpecConcurrent == InitRuns /\ [][NextConcurrent]_vars

\* one batch run, and then any mutation of the results it returned
NextObjects ==
    \/ /\ mem.pc = "idle"
       /\ \E batch \in MemBatches :
          \E target_fraud \in TargetBand(Len(batch)) :
          \E cities \in [1..Len(batch) -> INDIAN_CITIES] :
             run_batch_objects(batch, target_fraud, cities)
    \/ /\ mem.pc \in {"answered", "mutated"}
       /\ \E i \in 1..Len(mem.results) : \E what \in Mutations :
             MutateResult(i, what)

SpecObjects == InitRuns /\ [][NextObjects]_vars

\* one request to /api/predict/batch
NextLegacy ==
    /\ leg.pc = "idle"
    /\ \E transaction \in LegacyInputs, verdict \in LegacyVerdicts,
          outcome \in StoreOutcomes :
            predict_fraud(transaction, verdict, outcome)

SpecLegacy == InitSingle /\ [][NextLegacy]_vars

NextCsv ==
    /\ csv.pc = "idle"
    /\ \E file \in CsvFiles :
       \E verdicts \in [1..(IF file.kind = "table" THEN Len(file.rows) ELSE 0)
                          -> CsvVerdicts] :
          predict_fraud_batch(file, verdicts)

SpecCsv == InitSingle /\ [][NextCsv]_vars


----------------------------------------------------------------------------
(* Properties *)

\* C1: for every kyc_status string given to the Feature Builder, exactly one
\* of kyc_verified_Yes and kyc_verified_No is 1: "yes" after trimming and
\* lower-casing sets the verified flag, every other text the not-verified
\* flag.
C1_KycExactlyOneFlag ==
    fb.pc = "done" =>
        LET yes == Lower(Strip(fb.kyc)) = S_yes
        IN /\ fb.vector.kyc_verified_Yes + fb.vector.kyc_verified_No = 1
           /\ fb.vector.kyc_verified_Yes = 1 <=> yes
           /\ fb.vector.kyc_verified_No = 1 <=> ~yes

\* C2: for every channel string given to the Feature Builder the vector
\* holds the four channel flags and exactly one of them is 1: atm, mobile,
\* pos and web (trimmed, lower-cased) set their own flag, every other text
\* sets the Web flag.
C2_ChannelExactlyOneFlag ==
    fb.pc = "done" =>
        LET v == fb.vector
            n == Lower(Strip(fb.channel))
        IN /\ {"channel_Atm", "channel_Mobile", "channel_Pos", "channel_Web"}
                 \subseteq DOMAIN v
           /\ v.channel_Atm + v.channel_Mobile + v.channel_Pos + v.channel_Web = 1
           /\ v.channel_Atm = 1 <=> n = S_atm
           /\ v.channel_Mobile = 1 <=> n = S_mobile
           /\ v.channel_Pos = 1 <=> n = S_pos
           /\ v.channel_Web = 1 <=> n \notin {S_atm, S_mobile, S_pos}

\* an unrecognised, padded channel text was mapped to the Web flag
C2_Witness ==
    /\ fb.pc = "done"
    /\ fb.channel = <<" ", "U", "P", "I", " ">>
    /\ fb.vector.channel_Web = 1

\* C3: the risk level is High exactly when probability > 0.7, Medium exactly
\* when 0.4 < probability <= 0.7 and Low otherwise, and the labeler of single
\* scoring and the labeler of the batch calibrator agree on every
\* probability.
C3_RiskLevelThresholds ==
    rl.pc = "done" =>
        /\ rl.single = "High" <=> rl.probability > 70
        /\ rl.single = "Medium" <=> (rl.probability > 40 /\ rl.probability <= 70)
        /\ rl.single = "Low" <=> rl.probability <= 40
        /\ rl.batch = rl.single

\* probability 0.70 was labelled Medium by both labelers
C3_Witness ==
    /\ rl.pc = "done"
    /\ rl.probability = 70
    /\ rl.single = "Medium"
    /\ rl.batch = "Medium"

\* C4: Decision Fusion returns 1 exactly when (some rule fired and
\* ml_probability > 0.2) or ml_probability >= 0.7 or ml_label = 1, and the
\* classifier's label otherwise.
C4_FusionPolicy ==
    (enh.pc = "done" /\ enh.status = 200) =>
        LET flagged == enh.response.rule_flags # <<>>
            p == enh.verdict.fraud_probability
            forced == (flagged /\ p > 20) \/ p >= 70
        IN /\ enh.final_prediction = 1
                <=> (forced \/ enh.verdict.prediction = 1)
           /\ ~forced => enh.final_prediction = enh.verdict.prediction
           /\ enh.response.prediction =
                 IF enh.final_prediction = 1 THEN "Fraud" ELSE "Legitimate"

\* the classifier said 0 with probability 0.35, one rule fired and the
\* verdict is 1
C4_Witness ==
    /\ enh.pc = "done"
    /\ enh.status = 200
    /\ enh.verdict.prediction = 0
    /\ enh.verdict.fraud_probability = 35
    /\ Len(enh.response.rule_flags) = 1
    /\ enh.final_prediction = 1

\* the transaction of the worked example: amount 15000, age 10, hour 3,
\* kyc "No", channel "ATM"
IsExampleTransaction(t) ==
    /\ t.transaction_amount = 15000
    /\ t.account_age_days = 10
    /\ t.hour = 3
    /\ t.kyc_verified = <<"N","o">>
    /\ t.channel = <<"A","T","M">>

\* C5 as stated: the example transaction yields the four flags
\* HIGH_VALUE_NEW_ACCOUNT, UNVERIFIED_KYC_HIGH_AMOUNT, UNUSUAL_HOUR,
\* NEW_ACCOUNT_UNVERIFIED.
C5_ExampleFourFlags ==
    (enh.pc = "done" /\ enh.status = 200 /\ IsExampleTransaction(enh.transaction))
        => enh.response.rule_flags =
              <<"HIGH_VALUE_NEW_ACCOUNT", "UNVERIFIED_KYC_HIGH_AMOUNT",
                "UNUSUAL_HOUR", "NEW_ACCOUNT_UNVERIFIED">>

\* C5 as amended: the example transaction yields exactly
\* HIGH_VALUE_NEW_ACCOUNT, UNVERIFIED_KYC_HIGH_AMOUNT, UNUSUAL_HOUR, in this
\* order; NEW_ACCOUNT_UNVERIFIED stays out because the account is 10 days
\* old and the rule asks for less than 7.
C5_ExampleThreeFlags ==
    (enh.pc = "done" /\ enh.status = 200 /\ IsExampleTransaction(enh.transaction))
        => enh.response.rule_flags =
              <<"HIGH_VALUE_NEW_ACCOUNT", "UNVERIFIED_KYC_HIGH_AMOUNT",
                "UNUSUAL_HOUR">>

\* the example transaction was scored
C5_Witness ==
    /\ enh.pc = "done"
    /\ enh.status = 200
    /\ IsExampleTransaction(enh.transaction)
    /\ Len(enh.response.rule_flags) = 3

\* the identifiers of rules 1 to 6 as the engine emits them
RuleOrder ==
    <<"HIGH_VALUE_NEW_ACCOUNT", "UNVERIFIED_KYC_HIGH_AMOUNT", "UNUSUAL_HOUR",
      "VERY_HIGH_AMOUNT", "NEW_ACCOUNT_UNVERIFIED", "HIGH_ATM_WITHDRAWAL">>

\* the condition of rule n on transaction t
RuleHolds(n, t) ==
    LET unverified == Lower(Strip(t.kyc_verified)) = S_no
    IN CASE n = 1 -> t.transaction_amount > 10000 /\ t.account_age_days < 30
         [] n = 2 -> unverified /\ t.transaction_amount > 5000
         [] n = 3 -> t.hour \in 2..5 /\ t.transaction_amount > 3000
         [] n = 4 -> t.transaction_amount > 50000
         [] n = 5 -> t.account_age_days < 7 /\ unverified
         [] n = 6 -> Lower(t.channel) \in {S_atm, S_pos}
                     /\ t.transaction_amount > 20000

\* C6: the Rule Engine's output is a subsequence of the six-rule order: a
\* rule's identifier appears once when the rule's own condition holds and
\* not at all when it fails, whatever the other rules did.
C6_RuleFlagsOrdered ==
    (enh.pc = "done" /\ enh.status = 200) =>
        LET flags == enh.response.rule_flags
            where(id) == CHOOSE n \in 1..6 : RuleOrder[n] = id
        IN /\ \A k \in 1..Len(flags) : \E n \in 1..6 : RuleOrder[n] = flags[k]
           /\ \A k \in 1..(Len(flags) - 1) : where(flags[k]) < where(flags[k + 1])
           /\ \A n \in 1..6 :
                 RuleHolds(n, enh.transaction)
                    <=> \E k \in 1..Len(flags) : flags[k] = RuleOrder[n]

\* rules 2 and 3 both fired while rule 1 did not
C6_Witness ==
    /\ enh.pc = "done"
    /\ enh.status = 200
    /\ enh.response.rule_flags = <<"UNVERIFIED_KYC_HIGH_AMOUNT", "UNUSUAL_HOUR">>

\* the results that are not Error results
Scored(results) ==
    {i \in 1..Len(results) : results[i].prediction # "Error"}

\* C7: a batch of N >= 1 results without Error results ends the pass with a
\* fraud count between max(1, round(0.09 N)) and
\* min(N, max(that, round(0.15 N))); with N = 100 and no fraud before the
\* pass the count is between 9 and 15.
C7_FraudCountInBand ==
    (sim.pc = "done" /\ Len(sim.results) >= 1
        /\ Scored(sim.results) = 1..Len(sim.results)) =>
        LET N == Len(sim.results)
            lo == Max(1, RoundPct(N, 9))
            hi == Min(N, Max(lo, RoundPct(N, 15)))
            count == FraudCount(sim.results)
        IN /\ lo <= count
           /\ count <= hi
           /\ (N = 100 /\ FraudCount(sim.scored) = 0) => count \in 9..15

\* a batch of 100 without fraud before the pass ended with 15 Fraud results
C7_Witness ==
    /\ sim.pc = "done"
    /\ Len(sim.results) = 100
    /\ Scored(sim.results) = 1..100
    /\ FraudCount(sim.scored) = 0
    /\ FraudCount(sim.results) = 15

\* C8 as stated: for every non-empty batch, Error results included, the
\* fraud count after the pass equals the drawn target.
C8_FraudCountIsTarget ==
    (sim.pc = "done" /\ Len(sim.results) >= 1) =>
        FraudCount(sim.results) = sim.target_fraud

\* C8 as amended: the target is drawn from the band computed over all N
\* results, Error results included, and the fraud count after the pass is
\* the smaller of the target and the number of results that are not Errors.
C8_FraudCountIsReachableTarget ==
    (sim.pc = "done" /\ Len(sim.results) >= 1) =>
        /\ sim.target_fraud \in TargetBand(Len(sim.results))
        /\ FraudCount(sim.results) =
              Min(sim.target_fraud, Cardinality(Scored(sim.results)))
        /\ Scored(sim.results) = Scored(sim.scored)

\* a batch with Error results in which fewer results than the target are
\* not Errors
C8_Witness ==
    /\ sim.pc = "done"
    /\ Len(sim.results) = 3
    /\ Cardinality(Scored(sim.results)) = 0
    /\ sim.target_fraud = 1
    /\ FraudCount(sim.results) = 0

\* C9: in run_batch no failure while scoring a transaction aborts the
\* batch: the handler answers with one result per transaction, an Error
\* result for each transaction that failed.
C9_FailureStaysInItsItem ==
    (sim.pc # "idle" /\ sim.request.concurrency > 0) =>
        /\ sim.pc # "aborted"
        /\ sim.pc = "done" =>
              /\ Len(sim.results) = Len(sim.request.transactions)
              /\ \A i \in 1..Len(sim.results) :
                    sim.results[i].prediction = "Error" =>
                       /\ sim.results[i].fraud_probability = 0
                       /\ sim.results[i].risk_level = "Unknown"

\* C10: in the CSV batch path a row that cannot be coerced, or on which the
\* classifier fails, does not fail the upload: the request succeeds with an
\* entry for every row.
C10_RowFailureStaysInItsRow ==
    (csv.pc = "done" /\ csv.file.kind = "table") =>
        /\ csv.status = 200
        /\ Len(csv.results) = Len(csv.file.rows)

\* C12: whenever the classifier produced a verdict, predict_fraud_enhanced
\* answers 200 with the response it built, whatever the store did; a store
\* failure is printed unless it is a duplicate key, and never raised
C12_StoreFailureSwallowed ==
    (enh.pc = "done" /\ enh.verdict.ok) =>
        /\ enh.status = 200
        /\ "response" \in DOMAIN enh
        /\ enh.response.prediction =
              (IF enh.final_prediction = 1 THEN "Fraud" ELSE "Legitimate")
        /\ enh.response.risk_score = enh.verdict.fraud_probability
        /\ ~enh.store.raised
        /\ enh.store.stored = (enh.outcome = "stored")
        /\ enh.store.logged = (enh.outcome \in {"unavailable", "other"})

\* a request answered although the store was unavailable
C12_Witness ==
    /\ enh.pc = "done"
    /\ enh.verdict.ok
    /\ enh.outcome = "unavailable"
    /\ enh.status = 200
    /\ enh.store.logged

\* the reason text the factor list alone selects, when there is a factor
FactorReason(risk_factors) ==
    IF Len(risk_factors) >= 2
    THEN <<"Multiple risk indicators detected", risk_factors>>
    ELSE <<"Risk factor identified", risk_factors[1]>>

\* the reason text the verdict selects when no factor is cited
VerdictReason(final_prediction, fraud_probability, transaction_amount) ==
    IF final_prediction = 1 /\ fraud_probability >= 70
    THEN <<"High ML fraud risk score", fraud_probability>>
    ELSE IF final_prediction = 1
    THEN <<"Moderate fraud risk detected", fraud_probability>>
    ELSE <<"Low fraud risk", transaction_amount>>

\* C13 as stated: for every verdict the reason cites the risk factors when
\* there is at least one, and depends on the verdict only when there is none
C13_ReasonFactorsFirst ==
    (enh.pc = "done" /\ enh.status = 200) =>
        enh.response.reason =
            IF Len(enh.response.risk_factors) >= 1
            THEN FactorReason(enh.response.risk_factors)
            ELSE VerdictReason(enh.final_prediction, enh.response.risk_score,
                               enh.transaction.transaction_amount)

\* C13 amended: the factor priority applies to a Fraud verdict only; a
\* Legitimate verdict always gets the low-risk text, whatever its factors
C13_ReasonVerdictFirst ==
    (enh.pc = "done" /\ enh.status = 200) =>
        enh.response.reason =
            IF enh.final_prediction = 1 /\ Len(enh.response.risk_factors) >= 1
            THEN FactorReason(enh.response.risk_factors)
            ELSE VerdictReason(enh.final_prediction, enh.response.risk_score,
                               enh.transaction.transaction_amount)

\* a Legitimate verdict with risk factors, answered with the low-risk text
C13_Witness ==
    /\ enh.pc = "done"
    /\ enh.status = 200
    /\ enh.final_prediction = 0
    /\ Len(enh.response.risk_factors) >= 2
    /\ enh.response.reason = <<"Low fraud risk", enh.transaction.transaction_amount>>

\* the results the pass turned from Legitimate into Fraud
FlippedToFraud ==
    {i \in 1..Len(sim.results) :
        sim.scored[i].prediction = "Legitimate" /\ sim.results[i].prediction = "Fraud"}

\* the results the pass turned from Fraud into Legitimate
FlippedToLegitimate ==
    {i \in 1..Len(sim.results) :
        sim.scored[i].prediction = "Fraud" /\ sim.results[i].prediction = "Legitimate"}

\* C14: the pass leaves raw_model_prediction and raw_model_probability of
\* every result as scoring wrote them, in either branch, flipped or not
C14_RawFieldsUnchanged ==
    sim.pc = "done" =>
        \A i \in 1..Len(sim.results) :
            \A f \in {"raw_model_prediction", "raw_model_probability"} :
                /\ (f \in DOMAIN sim.results[i]) = (f \in DOMAIN sim.scored[i])
                /\ f \in DOMAIN sim.scored[i] => sim.results[i][f] = sim.scored[i][f]

\* a deficit flip whose probability was raised above the raw one
C14_Witness ==
    /\ sim.pc = "done"
    /\ \E i \in FlippedToFraud :
          /\ sim.results[i].raw_model_prediction = "Legitimate"
          /\ sim.results[i].fraud_probability > sim.results[i].raw_model_probability

\* a surplus flip whose raw label stays Fraud
C14_WitnessSurplus ==
    /\ sim.pc = "done"
    /\ \E i \in FlippedToLegitimate :
          /\ sim.results[i].raw_model_prediction = "Fraud"
          /\ sim.results[i].fraud_probability < sim.results[i].raw_model_probability

\* the Error results of a list of results
Errors(results) ==
    {i \in 1..Len(results) : results[i].prediction = "Error"}

\* C18: the pass leaves every Error result as it was and counts none as
\* Fraud, while the target band is computed over all N results and
\* total_processed is N, Error results included
C18_ErrorsKeptAndCounted ==
    sim.pc = "done" =>
        LET N == Len(sim.results)
            lo == Min(N, Max(1, RoundPct(N, 9)))
            hi == Min(N, Max(lo, RoundPct(N, 15)))
        IN /\ Len(sim.scored) = N
           /\ \A i \in Errors(sim.scored) : sim.results[i] = sim.scored[i]
           /\ Errors(sim.results) = Errors(sim.scored)
           /\ N >= 1 => (lo <= sim.target_fraud /\ sim.target_fraud <= hi)
           /\ sim.total_processed = N
           /\ sim.fraudulent_count =
                 Cardinality({i \in 1..N : sim.results[i].prediction = "Fraud"})
           /\ sim.fraudulent_count <= N - Cardinality(Errors(sim.results))

\* a batch with an Error result next to a result the pass flipped
C18_Witness ==
    /\ sim.pc = "done"
    /\ Len(sim.results) = 3
    /\ Cardinality(Errors(sim.results)) = 2
    /\ FlippedToFraud # {}
    /\ sim.total_processed = 3

\* the rank of the deficit branch: (risk-factor count, raw probability)
DeficitRank(r) == <<Len(r.risk_factors), r.raw_model_probability>>

\* the rank of the surplus branch: overridden results first, then the raw
\* probability
SurplusRank(r) == <<IF r.simulation_override THEN 0 ELSE 1, r.raw_model_probability>>

\* lexicographic order on pairs
PairLess(a, b) == a[1] < b[1] \/ (a[1] = b[1] /\ a[2] < b[2])

\* the risk level of a probability in hundredths
LevelOf(p) == IF p > 70 THEN "High" ELSE IF p > 40 THEN "Medium" ELSE "Low"

\* C19: in the deficit branch exactly min(deficit, number of Legitimate
\* results) results are flipped to Fraud, no unflipped Legitimate result
\* ranks strictly above a flipped one by (risk-factor count, raw
\* probability), and a flipped result gets probability
\* min(0.97, max(previous, raw + 0.2)), the risk level of that probability,
\* the factor "Simulation anomaly injection" and simulation_override
C19_DeficitBranch ==
    (sim.pc = "done" /\ FraudCount(sim.scored) < sim.target_fraud) =>
        LET deficit == sim.target_fraud - FraudCount(sim.scored)
            legit == {i \in 1..Len(sim.scored) : sim.scored[i].prediction = "Legitimate"}
        IN /\ Cardinality(FlippedToFraud) = Min(deficit, Cardinality(legit))
           /\ FlippedToLegitimate = {}
           /\ \A i \in legit \ FlippedToFraud : \A j \in FlippedToFraud :
                 ~PairLess(DeficitRank(sim.scored[j]), DeficitRank(sim.scored[i]))
           /\ \A j \in FlippedToFraud :
                 LET p == Min(97, Max(sim.scored[j].fraud_probability,
                                      sim.scored[j].raw_model_probability + 20))
                 IN /\ sim.results[j].fraud_probability = p
                    /\ sim.results[j].risk_level = LevelOf(p)
                    /\ sim.results[j].risk_factors =
                          Append(sim.scored[j].risk_factors, "Simulation anomaly injection")
                    /\ sim.results[j].simulation_override

\* a deficit of one with two Legitimate results, where the later one, with
\* the higher rank, was flipped and the earlier was not
C19_Witness ==
    /\ sim.pc = "done"
    /\ FraudCount(sim.scored) < sim.target_fraud
    /\ \E i \in 1..Len(sim.results) : \E j \in FlippedToFraud :
          /\ i < j
          /\ sim.scored[i].prediction = "Legitimate"
          /\ sim.results[i].prediction = "Legitimate"
          /\ PairLess(DeficitRank(sim.scored[i]), DeficitRank(sim.scored[j]))

\* C20: in the surplus branch exactly surplus Fraud results are flipped to
\* Legitimate, no unflipped Fraud result ranks strictly before a flipped
\* one (overridden first, then raw probability ascending), and a flipped
\* result gets probability min(raw, 0.35), risk level Low, the factor
\* "Simulation normalization" and simulation_override
C20_SurplusBranch ==
    (sim.pc = "done" /\ FraudCount(sim.scored) > sim.target_fraud) =>
        LET surplus == FraudCount(sim.scored) - sim.target_fraud
            fraud == {i \in 1..Len(sim.scored) : sim.scored[i].prediction = "Fraud"}
        IN /\ Cardinality(FlippedToLegitimate) = surplus
           /\ FlippedToFraud = {}
           /\ \A i \in fraud \ FlippedToLegitimate : \A j \in FlippedToLegitimate :
                 ~PairLess(SurplusRank(sim.scored[i]), SurplusRank(sim.scored[j]))
           /\ \A j \in FlippedToLegitimate :
                 /\ sim.results[j].fraud_probability =
                       Min(sim.scored[j].raw_model_probability, 35)
                 /\ sim.results[j].risk_level = "Low"
                 /\ sim.results[j].risk_factors =
                       Append(sim.scored[j].risk_factors, "Simulation normalization")
                 /\ sim.results[j].simulation_override

\* a surplus of one with two Fraud results, where the later one, with the
\* lower raw probability, was flipped and the earlier was not
C20_Witness ==
    /\ sim.pc = "done"
    /\ FraudCount(sim.scored) > sim.target_fraud
    /\ \E i \in 1..Len(sim.results) : \E j \in FlippedToLegitimate :
          /\ i < j
          /\ sim.scored[i].prediction = "Fraud"
          /\ sim.results[i].prediction = "Fraud"
          /\ sim.scored[j].raw_model_probability < sim.scored[i].raw_model_probability

\* C11: after any sequence of batch runs the deque holds the
\* min(500, total inserted) most recently inserted entries in insertion
\* order
C11_BufferIsLatestWindow ==
    LET all == Flatten(inserted)
        held == Min(500, Len(all))
    IN /\ Len(SIMULATION_BUFFER) = held
       /\ \A k \in 1..held :
             SIMULATION_BUFFER[k] = all[Len(all) - held + k]

\* 501 entries were inserted: 500 are left, and the first one is gone
C11_Witness ==
    LET all == Flatten(inserted)
    IN /\ Len(all) = 501
       /\ Len(SIMULATION_BUFFER) = 500
       /\ SIMULATION_BUFFER[1] = all[2]
       /\ SIMULATION_BUFFER[1] # all[1]
       /\ SIMULATION_BUFFER[500] = all[501]

\* whether the overlay entries are those of the results, one for one and in
\* the same order
SameBatch(entries, results) ==
    /\ Len(entries) = Len(results)
    /\ \A i \in 1..Len(results) :
         /\ entries[i].transaction_id = results[i].transaction_id
         /\ entries[i].channel = results[i].channel
         /\ entries[i].transaction_amount = results[i].transaction_amount
         /\ entries[i].prediction = results[i].prediction
         /\ entries[i].fraud_probability = results[i].fraud_probability
         /\ entries[i].simulation_override = results[i].simulation_override

\* the last n elements of a sequence, or all of it when it is shorter
LastOf(seq, n) == SubSeq(seq, Max(1, Len(seq) - n + 1), Len(seq))

\* the handlers that have answered with a non-empty batch
Answered == {h \in Slots : sims[h].pc = "done" /\ sims[h].results # <<>>}

\* C15: with batch runs and overlay reads in flight together, the deque is
\* at every moment a sequence of whole batches, each the results of one
\* handler in result order, and a snapshot is the tail of such a sequence
C15_InsertionsSerialized ==
    /\ SIMULATION_BUFFER = LastOf(Flatten(inserted), 500)
    /\ Len(inserted) = Cardinality(Answered)
    /\ \A k \in 1..Len(inserted) :
         \E h \in Answered : SameBatch(inserted[k], sims[h].results)
    /\ \A h \in Answered :
         \E k \in 1..Len(inserted) : SameBatch(inserted[k], sims[h].results)
    /\ ov.status = 200 =>
         \E k \in 0..Len(inserted) :
            ov.transactions =
                LastOf(Flatten(SubSeq(inserted, 1, k)),
                       IF ov.limit \in 1..500 THEN ov.limit ELSE 500)

\* both handlers have inserted different batches, and the overlay was read
\* in full between the two insertions
C15_Witness ==
    /\ Answered = Slots
    /\ Len(inserted) = 2
    /\ Len(inserted[1]) # Len(inserted[2])
    /\ ov.status = 200
    /\ ov.limit = 500
    /\ ov.transactions = inserted[1]
    /\ SIMULATION_BUFFER = inserted[1] \o inserted[2]

\* C17: while a handler is in its loop its results are those of whole
\* chunks taken in order and untouched by the pass, and nothing of its batch
\* is in the deque; once it has answered, the pass has run over one result
\* per transaction and the deque holds the batch as the pass left it
C17_PhasesOrdered ==
    /\ Len(inserted) = Cardinality(Answered)
    /\ \A h \in Slots :
         LET s == sims[h]
         IN /\ s.pc = "loop" =>
                 LET n == Len(s.request.transactions)
                 IN /\ s.i % s.request.concurrency = 0
                    /\ Len(s.results) = Min(s.i, n)
                    /\ \A j \in 1..Len(s.results) :
                         /\ s.results[j].transaction_id
                               = s.request.transactions[j].customer_id
                         /\ ~Get(s.results[j], "simulation_override", FALSE)
            /\ s.pc = "done" =>
                 /\ Len(s.scored) = Len(s.request.transactions)
                 /\ Len(s.results) = Len(s.scored)
                 /\ FraudCount(s.results) = s.target_fraud
                 /\ \E k \in 1..Len(inserted) : SameBatch(inserted[k], s.results)
                 /\ \E k \in 1..Len(SIMULATION_BUFFER) :
                       SameBatch(SubSeq(SIMULATION_BUFFER, k, k + Len(s.results) - 1),
                                 s.results)

\* one handler has answered with a batch in which the pass flipped a
\* result, the flipped verdict is the one in the deque, and the other
\* handler is between two chunks
C17_Witness ==
    \E h \in Slots : \E g \in Slots \ {h} :
        /\ sims[h].pc = "done"
        /\ \E j \in 1..Len(sims[h].results) :
             /\ sims[h].scored[j].prediction = "Fraud"
             /\ sims[h].results[j].prediction = "Legitimate"
             /\ SIMULATION_BUFFER[j].prediction = "Legitimate"
             /\ SIMULATION_BUFFER[j].simulation_override
        /\ sims[g].pc = "loop"
        /\ sims[g].i > 0
        /\ sims[g].i < Len(sims[g].request.transactions)

\* C16: whatever is later done to the result records of a batch, every
\* entry of the deque reads as it did when it was inserted
C16_BufferEntryIsCopy ==
    mem.pc \in {"answered", "mutated"} =>
        \A k \in 1..Len(mem.buffer) :
            Seen(mem.heap, mem.buffer[k]) = mem.stored[k]

\* what does hold: the fields of an entry that were given an immutable value
\* read as they did when the entry was inserted, and so does a location
\* that is a text (a timestamp is passed on like a location; the batches
\* here carry it as a text)
C16_ImmutableFieldsKept ==
    mem.pc \in {"answered", "mutated"} =>
        \A k \in 1..Len(mem.buffer) :
            \A f \in DOMAIN mem.stored[k] :
                (f = "location" => mem.heap[mem.buffer[k]][f].at = <<>>) =>
                    Seen(mem.heap, mem.buffer[k])[f] = mem.stored[k][f]

\* C21: the CSV batch prediction, which reports the rule-fusion verdict,
\* reports confidence by the enhanced scheme: the probability as a
\* percentage
C21_CsvConfidenceEnhanced ==
    (csv.pc = "done" /\ csv.status = 200) =>
        \A i \in 1..Len(csv.results) :
            csv.results[i].confidence = csv.verdicts[i].fraud_probability

\* what the single enhanced prediction does: it reports the rule-fusion
\* verdict with the enhanced confidence
C21_EnhancedConfidenceEnhanced ==
    (enh.pc = "done" /\ enh.status = 200) =>
        enh.response.confidence = enh.verdict.fraud_probability

\* C22: rule 6 emits HIGH_CHANNEL_WITHDRAWAL exactly when the channel is
\* ATM or POS in any case and the amount is above 20000, and no other
\* identifier is emitted for that condition
C22_Rule6Identifier ==
    (enh.pc = "done" /\ enh.status = 200) =>
        LET flags == enh.response.rule_flags
            emitted == {flags[k] : k \in 1..Len(flags)}
        IN /\ "HIGH_CHANNEL_WITHDRAWAL" \in emitted <=> RuleHolds(6, enh.transaction)
           /\ emitted \subseteq {RuleOrder[n] : n \in 1..5} \cup {"HIGH_CHANNEL_WITHDRAWAL"}

\* what the code does: the identifier emitted for that condition, and for
\* no other, is HIGH_ATM_WITHDRAWAL
C22_Rule6EmitsAtmIdentifier ==
    (enh.pc = "done" /\ enh.status = 200) =>
        LET flags == enh.response.rule_flags
        IN (\E k \in 1..Len(flags) : flags[k] = "HIGH_ATM_WITHDRAWAL")
              <=> RuleHolds(6, enh.transaction)

\* the five risk factors in their order
FactorOrder ==
    <<"High transaction amount", "New account (< 30 days)",
      "Unusual transaction time", "KYC not verified",
      "High-value ATM transaction">>

\* the condition of the n-th risk factor on transaction t, the fifth one
\* for the given channels
FactorHolds(n, t, channels) ==
    CASE n = 1 -> t.transaction_amount > 10000
      [] n = 2 -> t.account_age_days < 30
      [] n = 3 -> t.hour < 6 \/ t.hour > 22
      [] n = 4 -> Lower(Strip(t.kyc_verified)) = S_no
      [] n = 5 -> Lower(t.channel) \in channels /\ t.transaction_amount > 20000

\* whether the factors are those of the conditions that hold, each once and
\* in the fixed order
FactorsAre(factors, t, channels) ==
    LET where(id) == CHOOSE n \in 1..5 : FactorOrder[n] = id
    IN /\ \A k \in 1..Len(factors) : \E n \in 1..5 : FactorOrder[n] = factors[k]
       /\ \A k \in 1..(Len(factors) - 1) : where(factors[k]) < where(factors[k + 1])
       /\ \A n \in 1..5 :
             FactorHolds(n, t, channels)
                <=> \E k \in 1..Len(factors) : factors[k] = FactorOrder[n]

\* C23: the risk factors are emitted in the fixed order, each at most once,
\* for amount > 10000, age < 30, hour outside [6, 22], KYC not verified and
\* an ATM transaction above 20000, the fifth only when the channel is ATM
C23_RiskFactorsAtmOnly ==
    (enh.pc = "done" /\ enh.status = 200) =>
        FactorsAre(enh.response.risk_factors, enh.transaction, {S_atm})

\* what the code does: the fifth factor fires for POS as it does for ATM
C23_RiskFactorsAtmOrPos ==
    (enh.pc = "done" /\ enh.status = 200) =>
        FactorsAre(enh.response.risk_factors, enh.transaction, {S_atm, S_pos})

\* C24: every vector of the legacy builder holds all channel and KYC flags,
\* exactly one channel flag equal to 1 and exactly one KYC flag equal to 1,
\* whichever flags the request gave
C24_LegacyVectorOneHot ==
    leg.pc = "done" =>
        LET v == leg.engineered
        IN /\ FlagFields \subseteq DOMAIN v
           /\ Cardinality({f \in {"channel_Atm", "channel_Mobile", "channel_Pos",
                                  "channel_Web"} : v[f] = 1}) = 1
           /\ Cardinality({f \in {"kyc_verified_No", "kyc_verified_Yes"} : v[f] = 1}) = 1

\* what the code does: the vector holds all flags, each as the request gave
\* it or 0 when the request omitted it
C24_LegacyFlagsCopied ==
    leg.pc = "done" =>
        /\ FlagFields \subseteq DOMAIN leg.engineered
        /\ \A f \in FlagFields : leg.engineered[f] = leg.transaction[f]

\* whether the response is the one for the deque: the last min(limit, size)
\* entries in order, limit taken as 500 when it is outside 1..500, with
\* their count, the count of those with is_fraud set and a rate of 0 for an
\* empty snapshot
SnapshotOf(response, buffer) ==
    LET effective == IF response.limit \in 1..500 THEN response.limit ELSE 500
        held == Min(effective, Len(buffer))
    IN /\ Len(response.transactions) = held
       /\ \A k \in 1..held :
             response.transactions[k] = buffer[Len(buffer) - held + k]
       /\ response.total = held
       /\ response.fraud_count =
             Cardinality({k \in 1..held : response.transactions[k].is_fraud = 1})
       /\ held = 0 => response.fraud_rate = 0

\* C25: a read of the overlay returns the min(limit, size) most recent
\* entries in insertion order, a limit outside 1..500 counting as 500, with
\* total, fraud_count and fraud_rate as stated, and leaves the deque as it
\* was
C25_OverlaySnapshot ==
    [][ov' # ov =>
          /\ SIMULATION_BUFFER' = SIMULATION_BUFFER
          /\ inserted' = inserted
          /\ SnapshotOf(ov', SIMULATION_BUFFER)]_vars

\* a read with limit 2 of a deque of five entries from two batches returned
\* the last two, one of them Fraud
C25_Witness ==
    /\ ov.status = 200
    /\ ov.limit = 2
    /\ ov.total = 2
    /\ ov.fraud_count = 1
    /\ Len(SIMULATION_BUFFER) = 5
    /\ ov.transactions = SubSeq(SIMULATION_BUFFER, 4, 5)
    /\ ov.transactions # SubSeq(SIMULATION_BUFFER, 1, 2)

\* a read with limit 501 of a deque of five entries returned all five
C25_WitnessOutside ==
    /\ ov.status = 200
    /\ ov.limit = 501
    /\ ov.total = 5
    /\ ov.transactions = SIMULATION_BUFFER

\* a read of the empty deque
C25_WitnessEmpty ==
    /\ ov.status = 200
    /\ ov.limit = 0
    /\ ov.total = 0
    /\ ov.fraud_rate = 0
    /\ SIMULATION_BUFFER = <<>>

\* the sum of a field over the first n rows
RECURSIVE SumOf(_, _, _)
SumOf(rows, field, n) ==
    IF n = 0 THEN 0 ELSE SumOf(rows, field, n - 1) + rows[n][field]

\* C26: the channel summary of a snapshot has one row per distinct channel,
\* the totals add up to the number of entries and the fraud counts to the
\* number of entries with is_fraud set, no row has more frauds than
\* entries, and the rows are in non-increasing order of fraud rate
C26_ChannelSummary ==
    ov.status = 200 =>
        LET rows == ov.channel_summary
            entries == ov.transactions
            channels == {entries[i].channel : i \in 1..Len(entries)}
        IN /\ Len(rows) = Cardinality(channels)
           /\ {rows[k].channel : k \in 1..Len(rows)} = channels
           /\ SumOf(rows, "total", Len(rows)) = Len(entries)
           /\ SumOf(rows, "fraud_count", Len(rows)) =
                 Cardinality({i \in 1..Len(entries) : entries[i].is_fraud = 1})
           /\ \A k \in 1..Len(rows) :
                 /\ rows[k].fraud_count <= rows[k].total
                 /\ rows[k].total =
                       Cardinality({i \in 1..Len(entries) :
                                      entries[i].channel = rows[k].channel})
           /\ \A k \in 1..(Len(rows) - 1) :
                 rows[k].fraud_rate >= rows[k + 1].fraud_rate

\* a snapshot whose first entry is on a channel without fraud and whose
\* summary starts with the other channel, which has the higher fraud rate
C26_Witness ==
    /\ ov.status = 200
    /\ Len(ov.channel_summary) = 2
    /\ ov.channel_summary[1].channel # ov.transactions[1].channel
    /\ ov.channel_summary[1].fraud_rate > ov.channel_summary[2].fraud_rate
    /\ ov.channel_summary[2].total = 2

\* C27: a success response of run_batch holds one result per supplied
\* transaction, results[i] being that of transactions[i], for every
\* concurrency the request model accepts
C27_OneResultPerTransaction ==
    (sim.pc = "done" /\ sim.status = 200) =>
        LET txns == sim.request.transactions
        IN /\ sim.total_processed = Len(txns)
           /\ Len(sim.results) = Len(txns)
           /\ \A i \in 1..Len(sim.results) :
                 sim.results[i].transaction_id = txns[i].customer_id

\* what does hold: with a positive concurrency a success response holds one
\* result per transaction, in order
C27_OneResultPerTransactionPositive ==
    (sim.pc = "done" /\ sim.status = 200 /\ sim.request.concurrency > 0) =>
        LET txns == sim.request.transactions
        IN /\ sim.total_processed = Len(txns)
           /\ Len(sim.results) = Len(txns)
           /\ \A i \in 1..Len(sim.results) :
                 sim.results[i].transaction_id = txns[i].customer_id

\* C28: Decision Fusion never lowers a verdict: a classifier label of 1
\* gives a final label of 1, and with the same classifier output a final
\* label of 1 stays 1 when rule flags are added (so it is never below the
\* label of any part of the flags, the empty one included)
C28_FusionNeverLowers ==
    (enh.pc = "done" /\ enh.status = 200) =>
        LET flags == enh.response.rule_flags
            label == enh.verdict.prediction
            p == enh.verdict.fraud_probability
        IN /\ label = 1 => enh.final_prediction = 1
           /\ enh.final_prediction = Fusion(flags, label, p)
           /\ \A n \in 0..Len(flags) :
                 Fusion(SubSeq(flags, 1, n), label, p) <= enh.final_prediction
           /\ \A k \in 1..6 :
                 enh.final_prediction <= Fusion(Append(flags, RuleOrder[k]), label, p)

\* the classifier said 1 with probability 0.20, rules fired, and the verdict
\* is 1
C28_Witness ==
    /\ enh.pc = "done"
    /\ enh.status = 200
    /\ enh.verdict.prediction = 1
    /\ enh.verdict.fraud_probability = 20
    /\ Len(enh.response.rule_flags) >= 2
    /\ enh.final_prediction = 1

\* whether is_fraud of a record says what its prediction says
FraudFlagAgrees(r) ==
    /\ r.is_fraud \in {0, 1}
    /\ r.is_fraud = 1 <=> r.prediction = "Fraud"

\* C29: in every result that is not an Error, before and after the pass,
\* and in every entry of the deque, is_fraud is 1 exactly when the
\* prediction is Fraud and 0 otherwise, and simulation_override is true
\* exactly for the results the pass flipped
C29_FraudFlagConsistent ==
    /\ sim.pc = "loop" =>
          \A i \in Scored(sim.results) :
              FraudFlagAgrees(sim.results[i]) /\ ~sim.results[i].simulation_override
    /\ sim.pc = "done" =>
          /\ \A i \in Scored(sim.scored) :
                FraudFlagAgrees(sim.scored[i]) /\ ~sim.scored[i].simulation_override
          /\ \A i \in Scored(sim.results) :
                /\ FraudFlagAgrees(sim.results[i])
                /\ sim.results[i].simulation_override
                      <=> sim.results[i].prediction # sim.scored[i].prediction
          /\ Len(SIMULATION_BUFFER) = Len(sim.results)
          /\ \A k \in 1..Len(SIMULATION_BUFFER) :
                SIMULATION_BUFFER[k].simulation_override
                   <=> sim.results[k].prediction # sim.scored[k].prediction
    /\ \A k \in 1..Len(SIMULATION_BUFFER) : FraudFlagAgrees(SIMULATION_BUFFER[k])

\* a batch of three in which the pass turned a Fraud result into a
\* Legitimate one, next to an Error result, all three in the deque
C29_Witness ==
    /\ sim.pc = "done"
    /\ Len(SIMULATION_BUFFER) = 3
    /\ Errors(sim.results) # {}
    /\ \E j \in FlippedToLegitimate :
          /\ sim.results[j].is_fraud = 0
          /\ SIMULATION_BUFFER[j].is_fraud = 0
          /\ SIMULATION_BUFFER[j].simulation_override
    /\ \E i \in 1..3 : SIMULATION_BUFFER[i].is_fraud = 1

\* C30: for every kyc_verified string of a request, the empty one and the
\* blank one included, the rules and the risk factors take the customer as
\* not verified exactly when the classifier's input has kyc_verified_No = 1
C30_KycAgreement ==
    (enh.pc = "done" /\ enh.status = 200) =>
        LET t == enh.transaction
            no == enh.engineered.kyc_verified_No = 1
        IN /\ "KYC not verified" \in Range(enh.response.risk_factors) <=> no
           /\ t.transaction_amount > 5000 =>
                 ("UNVERIFIED_KYC_HIGH_AMOUNT" \in Range(enh.response.rule_flags) <=> no)
           /\ t.account_age_days < 7 =>
                 ("NEW_ACCOUNT_UNVERIFIED" \in Range(enh.response.rule_flags) <=> no)

\* what the code does: the three tests agree with each other and with the
\* classifier's input on every string but the empty one, for which the
\* classifier's input alone says not verified
C30_KycAgreementButEmpty ==
    (enh.pc = "done" /\ enh.status = 200) =>
        LET t == enh.transaction
            no == enh.engineered.kyc_verified_No = 1
            said == "KYC not verified" \in Range(enh.response.risk_factors)
        IN /\ said <=> Lower(Strip(t.kyc_verified)) = S_no
           /\ t.transaction_amount > 5000 =>
                 ("UNVERIFIED_KYC_HIGH_AMOUNT" \in Range(enh.response.rule_flags) <=> said)
           /\ t.account_age_days < 7 =>
                 ("NEW_ACCOUNT_UNVERIFIED" \in Range(enh.response.rule_flags) <=> said)
           /\ t.kyc_verified # <<>> => (said <=> no)
           /\ t.kyc_verified = <<>> => (no /\ ~said)

====
